---------------------------- MODULE Spec2Model ----------------------------
(***************************************************************************)
(* A model of the AuDHD-LifeCoach commitment pipeline:                     *)
(*   Communication -> identify_commitments -> Commitment -> Reminder,      *)
(* with its two entry points (the ProcessCommunication use case and the    *)
(* MessageConsumerService callback), the operations of a Reminder, the     *)
(* RabbitMQ publisher and consumer adapters, the identifiers' helpers      *)
(* called on their own (person resolver, time range, spaCy time            *)
(* extraction), the lazy load of the recognition model under concurrent    *)
(* calls, the consumer service's start and stop with its thread, and the   *)
(* redelivery of requeued messages.                                        *)
(*                                                                         *)
(* Text is a sequence of word tokens; the empty string is <<>>.  Instants  *)
(* are minutes since Monday 00:00 of week 0, durations are minutes.        *)
(* Substring tests of the code ("phrase in text.lower()") become           *)
(* contiguous-token tests, with the substring relation between words of    *)
(* the vocabulary tabulated in SubstringOf.                                *)
(***************************************************************************)
EXTENDS Integers, Sequences, FiniteSets, TLC

VARIABLES
    impl,        \* which CommitmentIdentifiable is wired: "hf" or "spacy"
    recog,       \* what the entity recognizer does on this Communication's text
    inbound,     \* the inbound value: a function from the keys it carries
    now,         \* the wall clock, datetime.now()
    ticks,       \* how often the wall clock advanced
    runs,        \* one record per finished process_communication call
    response,    \* what ProcessCommunication.execute returned
    published,   \* the publish_message calls of execute, with their outcome
    settled,     \* the acknowledge/reject calls made on the message consumer
    cbResult,    \* what _message_callback returned
    commitment,  \* the Commitment a Reminder is built from directly
    reminder,    \* that Reminder
    lastOp,      \* the last operation called on a Reminder, an adapter or a helper
    built,       \* the Communication entity the last entry point constructed
    ops,         \* how many such operations were called
    channel,     \* the calls made on the pika channels, with their outcome
    connected,   \* the publisher holds a channel (self._channel is not None)
    threads,     \* the threads inside a call, each with its position and locals
    ner_pipeline, \* the identifier's self._ner_pipeline: <<>> for None
    service      \* the MessageConsumerService and its consumer's channel

vars == <<impl, recog, inbound, now, ticks, runs, response, published,
          settled, cbResult, commitment, reminder, lastOp, built, ops,
          channel, connected, threads, ner_pipeline, service>>

---------------------------------------------------------------------------
(* Bounds of the model *)

MaxLen == 2

MaxTicks == 1

MaxRuns == 2

\* How many operations are called on one Reminder or on the adapters
MaxOps == 3

\* How many PERSON spans the recognizer returns for one text
MaxSpans == 3

\* How many threads call one identifier at the same time
MaxThreads == 3

\* How many messages the broker delivers to one consumer
MaxMessages == 6

\* The delivery tags of a channel, counted modulo this bound
MaxDeliveries == 3

---------------------------------------------------------------------------
(* Time *)

Day == 24 * 60

Hours(h) == 60 * h

DateOf(t) == t \div Day

\* datetime.combine(date, time)
Combine(date, minutes) == date * Day + minutes

\* datetime.replace(hour=h, minute=m), with hm = 60*h + m
ReplaceTime(t, hm) == Combine(DateOf(t), hm)

\* datetime.weekday(): 0 = Monday .. 6 = Sunday
Weekday(t) == DateOf(t) % 7

---------------------------------------------------------------------------
(* Text *)

\* <<word, word.lower()>> for the words that hold an uppercase letter
CaseTable ==
    { <<"I'll", "i'll">>, <<"Feb", "feb">>, <<"May", "may">>,
      <<"AM", "am">>, <<"PM", "pm">>,
      <<"Maria", "maria">>, <<"Rodriguez", "rodriguez">>,
      <<"Paris", "paris">>, <<"Alice", "alice">>, <<"Bob", "bob">>,
      <<"Call", "call">>, <<"Meet", "meet">>, <<"Meeting", "meeting">>,
      <<"Appointment", "appointment">>, <<"Lunch", "lunch">>,
      <<"Dinner", "dinner">>, <<"Breakfast", "breakfast">>,
      <<"Submit", "submit">>, <<"Report", "report">>,
      <<"Presentation", "presentation">>, <<"Review", "review">>,
      <<"Interview", "interview">>, <<"Discuss", "discuss">>,
      <<"Discussion", "discussion">>, <<"Check", "check">>,
      <<"Checkup", "checkup">>, <<"Exam", "exam">>,
      <<"Examination", "examination">>, <<"Attend", "attend">>,
      <<"Event", "event">>, <<"Conference", "conference">>,
      <<"Recital", "recital">>, <<"Performance", "performance">>,
      <<"Game", "game">>, <<"Match", "match">>, <<"Delivery", "delivery">> }

\* any(c.isupper() for c in word)
HasUpper(w) == \E p \in CaseTable : p[1] = w

\* CaseTable as a function of the word
LowerOf ==
    [ w \in { p[1] : p \in CaseTable } |->
        (CHOOSE p \in CaseTable : p[1] = w)[2] ]

\* str.lower() on a word
Lower(w) == IF w \in DOMAIN LowerOf THEN LowerOf[w] ELSE w

LowerText(text) == [i \in 1..Len(text) |-> Lower(text[i])]

\* <<a, b>>: word a occurs inside word b (a # b)
SubstringOf ==
    { <<"meet", "meeting">>, <<"noon", "afternoon">>, <<"check", "checkup">>,
      <<"exam", "examination">>, <<"discuss", "discussion">>,
      <<"promise", "promised">> }

\* "a in b" for two lowercase words
WordIn(a, b) == a = b \/ <<a, b>> \in SubstringOf

\* "phrase in text" for a phrase of one or more words and a lowercase text
PhraseAt(phrase, text, i) ==
    /\ i + Len(phrase) - 1 <= Len(text)
    /\ IF Len(phrase) = 1
       THEN WordIn(phrase[1], text[i])
       ELSE \A k \in 1..Len(phrase) : text[i + k - 1] = phrase[k]

PhraseIn(phrase, text) == \E i \in 1..Len(text) : PhraseAt(phrase, text, i)

AnyPhraseIn(phrases, text) == \E p \in phrases : PhraseIn(p, text)

\* The texts of at most n words over a vocabulary
TextsUpTo(V, n) == UNION { [1..k -> V] : k \in 0..n }

---------------------------------------------------------------------------
(* Domain entities *)

DEFAULT_TRAVEL_TIME == 15

DEFAULT_PREP_TIME == 5

DEFAULT_LEAD_TIME == 30

\* Commitment(start_time, end_time, who, what, where): the dataclass
\* constructor, with the travel and preparation times left to their defaults
Commitment(start_time, end_time, who, what, where) ==
    [ start_time |-> start_time, end_time |-> end_time,
      who |-> who, what |-> what, where |-> where,
      estimated_travel_time |-> DEFAULT_TRAVEL_TIME,
      estimated_prep_time |-> DEFAULT_PREP_TIME ]

\* Commitment.calculate_departure_time
calculate_departure_time(c) ==
    c.start_time - c.estimated_travel_time - c.estimated_prep_time

\* The default message of Reminder.from_commitment: it names the person
\* and the start time, with the date left out when the commitment is today
ReminderMessage(c, today) ==
    LET
        MinuteOfDay(t) == t % Day
    IN
    IF DateOf(c.start_time) = today
    THEN [ who |-> c.who, time |-> MinuteOfDay(c.start_time), today |-> TRUE ]
    ELSE [ who |-> c.who, time |-> c.start_time, today |-> FALSE ]

\* A from_commitment that forgets the lead time: the reminder falls on the
\* start of the commitment
from_commitment_at_start(c, lead_time, clock) ==
    [ when |-> c.start_time,
      commitment |-> c,
      message |-> ReminderMessage(c, DateOf(clock)),
      acknowledged |-> FALSE ]

\* Reminder.from_commitment(commitment, lead_time), message generated
from_commitment(c, lead_time, clock) ==
    [ when |-> c.start_time - lead_time,
      commitment |-> c,
      message |-> ReminderMessage(c, DateOf(clock)),
      acknowledged |-> FALSE ]

\* An acknowledge that toggles the flag
acknowledge_toggling(r) == [ r EXCEPT !.acknowledged = ~@ ]

\* Reminder.acknowledge
acknowledge(r) == [ r EXCEPT !.acknowledged = TRUE ]

\* A snooze that re-arms the reminder
snooze_rearming(r, duration) ==
    [ r EXCEPT !.when = @ + duration, !.acknowledged = FALSE ]

\* Reminder.snooze(duration)
snooze(r, duration) == [ r EXCEPT !.when = @ + duration ]

\* An is_due that looks at the time only
is_due_by_time(r, clock) == clock >= r.when

\* Reminder.is_due, with datetime.now() = clock
is_due(r, clock) == clock >= r.when /\ ~r.acknowledged

---------------------------------------------------------------------------
(* HuggingFaceONYXTransformerCommitmentIdentifier *)

\* person_spans: the PER entities as (word, start, end, score), in list order
RECURSIVE PersonSpans(_)
PersonSpans(entities) ==
    LET
        \* entity.get('score', 1.0), scores in hundredths
        ScoreOf(e) == IF "score" \in DOMAIN e THEN e.score ELSE 100
        PersonLabels == {"PER", "B-PER", "I-PER", "PERSON"}
    IN
    IF entities = <<>> THEN <<>>
    ELSE LET e == Head(entities)
         IN (IF e.entity \in PersonLabels
             THEN << [word |-> e.word, start |-> e.start, end |-> e.end,
                      score |-> ScoreOf(e)] >>
             ELSE <<>>) \o PersonSpans(Tail(entities))

\* person_spans.sort(key=lambda x: x[1]): stable, ascending start
RECURSIVE InsertByStart(_, _)
InsertByStart(x, sorted) ==
    IF sorted = <<>> THEN <<x>>
    ELSE IF x.start < Head(sorted).start
         THEN <<x>> \o sorted
         ELSE <<Head(sorted)>> \o InsertByStart(x, Tail(sorted))

RECURSIVE SortByStart(_)
SortByStart(spans) ==
    IF spans = <<>> THEN <<>>
    ELSE InsertByStart(spans[Len(spans)],
                       SortByStart(SubSeq(spans, 1, Len(spans) - 1)))

\* The merge loop: cur is current_span (<<>> for None), done is merged_spans
RECURSIVE MergeSpans(_, _, _)
MergeSpans(spans, cur, done) ==
    LET
        Min(a, b) == IF a <= b THEN a ELSE b
    IN
    IF spans = <<>> THEN done \o cur
    ELSE LET s == Head(spans)
         IN IF cur = <<>>
            THEN MergeSpans(Tail(spans), <<s>>, done)
            ELSE IF s.start <= cur[1].end + 2
                 THEN MergeSpans(Tail(spans),
                                 << [word |-> cur[1].word \o s.word,
                                     start |-> cur[1].start,
                                     end |-> s.end,
                                     score |-> Min(cur[1].score, s.score)] >>,
                                 done)
                 ELSE MergeSpans(Tail(spans), <<s>>, done \o cur)

\* processed_names.sort(key=lambda x: x[1], reverse=True): stable, descending
RECURSIVE InsertByScore(_, _)
InsertByScore(x, sorted) ==
    IF sorted = <<>> THEN <<x>>
    ELSE IF x.score > Head(sorted).score
         THEN <<x>> \o sorted
         ELSE <<Head(sorted)>> \o InsertByScore(x, Tail(sorted))

RECURSIVE SortByScore(_)
SortByScore(names) ==
    IF names = <<>> THEN <<>>
    ELSE InsertByScore(names[Len(names)],
                       SortByScore(SubSeq(names, 1, Len(names) - 1)))

\* An _extract_person_entities that returns the first name in the text
extract_person_entities_first(entities) ==
    LET merged == MergeSpans(SortByStart(PersonSpans(entities)), <<>>, <<>>)
        names == SelectSeq(merged,
                           LAMBDA m : /\ \E i \in 1..Len(m.word) : HasUpper(m.word[i])
                                      /\ Len(m.word) <= 3)
    IN IF names = <<>> THEN <<>> ELSE names[1].word

\* _extract_person_entities: the best name, or <<>> for None
extract_person_entities(entities) ==
    LET
        \* The name-shape filter: an uppercase letter and at most three words
        LooksLikeName(name) ==
            /\ \E i \in 1..Len(name) : HasUpper(name[i])
            /\ Len(name) <= 3
    IN
    LET spans == PersonSpans(entities)
        merged == MergeSpans(SortByStart(spans), <<>>, <<>>)
        names == SelectSeq(merged, LAMBDA m : LooksLikeName(m.word))
    IN IF spans = <<>> \/ names = <<>>
       THEN <<>>
       ELSE SortByScore(names)[1].word

\* _has_commitment_intent
has_commitment_intent(text) ==
    LET
        \* commitment_phrases of _has_commitment_intent
        CommitmentPhrases ==
            { <<"will">>, <<"i'll">>, <<"going", "to">>, <<"meet">>, <<"plan", "to">>,
              <<"attend">>, <<"submit">>, <<"promise">>, <<"promised">>, <<"agreed">>,
              <<"need", "to">>, <<"must">>, <<"have", "to">>, <<"should">>,
              <<"discuss">>, <<"by", "friday">>, <<"tomorrow">>, <<"this", "evening">>,
              <<"morning">>, <<"afternoon">>, <<"checkup">>, <<"recital">>,
              <<"report">> }
    IN
                               AnyPhraseIn(CommitmentPhrases, LowerText(text))

\* activities of _extract_activity, in list order
Activities ==
    << "call", "meet", "meeting", "appointment", "lunch", "dinner",
       "breakfast", "submit", "report", "presentation", "review",
       "interview", "discuss", "discussion", "check", "checkup",
       "exam", "examination", "attend", "event", "conference",
       "recital", "performance", "game", "match", "delivery" >>

\* re.search(r'\b' + activity + r'\b', text, re.IGNORECASE)
WholeWordIn(word, text) == \E i \in 1..Len(text) : Lower(text[i]) = word

\* _extract_activity
extract_activity(text) ==
    LET
        DefaultActivity == <<"Meeting", "or", "appointment">>
        \* str.capitalize() on a lowercase word
        Capitalize(w) ==
            IF \E p \in CaseTable : p[2] = w
            THEN (CHOOSE p \in CaseTable : p[2] = w)[1]
            ELSE w
    IN
    IF \E k \in 1..Len(Activities) : WholeWordIn(Activities[k], text)
    THEN LET k == CHOOSE j \in 1..Len(Activities) :
                      /\ WholeWordIn(Activities[j], text)
                      /\ \A h \in 1..(j - 1) : ~WholeWordIn(Activities[h], text)
         IN <<Capitalize(Activities[k])>>
    ELSE DefaultActivity

---------------------------------------------------------------------------
(* Time expressions (HuggingFace identifier) *)

\* <<word, minute of the day>> for the words of the form HH:MM
ClockTable == { <<"15:30", 15 * 60 + 30>>, <<"3:30", 3 * 60 + 30>>,
                <<"10:00", 10 * 60>> }

ClockWords == { p[1] : p \in ClockTable }

ClockMinutes(w) == (CHOOSE p \in ClockTable : p[1] = w)[2]

\* <<word, hour>> for the words of the form \d{1,2}
HourTable == { <<"3", 3>>, <<"5", 5>>, <<"10", 10>>, <<"21", 21>>,
               <<"30", 30>> }

HourWords == { p[1] : p \in HourTable }

Meridiems == {"am", "pm"}

Prepositions == {"at", "by", "on", "for"}

DayParts == {"morning", "afternoon", "evening", "night"}

WeekdayNames == << "monday", "tuesday", "wednesday", "thursday", "friday",
                   "saturday", "sunday" >>

WeekdayWords == { WeekdayNames[i] : i \in 1..7 }

\* list(calendar.day_name).index(name.capitalize()): 0 = Monday
WeekdayIndex(w) == (CHOOSE i \in 1..7 : WeekdayNames[i] = w) - 1

\* TIME_PATTERNS, in list order.  A pattern is a sequence of shapes, the
\* shape with the optional part first; a shape is a sequence of word classes
TIME_PATTERNS ==
    LET
        \* \w+
        PlainWords ==
            {"we", "call", "meet", "will", "and", "tomorrow", "morning", "friday",
             "next", "this", "feb", "may"} \cup HourWords
    IN
    << << <<ClockWords, Meridiems>>, <<ClockWords>> >>,
       << <<Prepositions, ClockWords>> >>,
       << <<Prepositions, HourWords, Meridiems>> >>,
       << <<Prepositions, {"noon", "midnight"}>> >>,
       << <<{"next", "this", "tomorrow", "today"}, PlainWords, {"at", "by"},
            HourWords \cup ClockWords>> >>,
       << <<{"this", "next", "on"}, WeekdayWords>> >>,
       << <<{"this", "tomorrow", "tonight", "today"}, DayParts>>, <<DayParts>> >>,
       << <<DayParts>> >>,
       << <<WeekdayWords>> >> >>

\* Whether a shape matches the lowercase text at word i
ShapeAt(shape, text, i) ==
    /\ i + Len(shape) - 1 <= Len(text)
    /\ \A k \in 1..Len(shape) : text[i + k - 1] \in shape[k]

\* The length of a pattern's match at word i (0: no match)
MatchLen(pattern, text, i) ==
    IF \E s \in 1..Len(pattern) : ShapeAt(pattern[s], text, i)
    THEN Len(pattern[CHOOSE s \in 1..Len(pattern) :
                 /\ ShapeAt(pattern[s], text, i)
                 /\ \A r \in 1..(s - 1) : ~ShapeAt(pattern[r], text, i)])
    ELSE 0

\* re.finditer(pattern, text, re.IGNORECASE): the matches left to right,
\* none overlapping, each as (match.group(0), match.start(), match.end())
RECURSIVE FindIter(_, _, _)
FindIter(pattern, text, i) ==
    IF i > Len(text) THEN <<>>
    ELSE LET n == MatchLen(pattern, LowerText(text), i)
         IN IF n = 0
            THEN FindIter(pattern, text, i + 1)
            ELSE << [word |-> SubSeq(text, i, i + n - 1), start |-> i,
                     end |-> i + n] >>
                 \o FindIter(pattern, text, i + n)

\* potential_times: every pattern's matches, pattern after pattern
RECURSIVE PotentialTimes(_, _)
PotentialTimes(text, p) ==
    IF p > Len(TIME_PATTERNS) THEN <<>>
    ELSE FindIter(TIME_PATTERNS[p], text, 1) \o PotentialTimes(text, p + 1)

\* dateparser.parse(expr, settings={'PREFER_DATES_FROM': 'future',
\* 'RELATIVE_BASE': base}) on a lowercase expression: <<>> for None.
\* A clock time is resolved on the base date (the next day when it has
\* passed), "tomorrow" and "today" relative to the base instant, a weekday
\* name to its next date after the base date at 00:00; a part of the day
\* is not a date.
DateparserParse(expr, base) ==
    LET e == IF Len(expr) > 1 /\ expr[1] \in Prepositions \cup {"this", "next"}
             THEN Tail(expr) ELSE expr
        future(t) == IF t < base THEN t + Day ELSE t
    IN  IF Len(e) = 1 /\ e[1] \in ClockWords
        THEN << future(ReplaceTime(base, ClockMinutes(e[1]))) >>
        ELSE IF Len(e) = 2 /\ e[1] \in ClockWords /\ e[2] \in Meridiems
        THEN << future(ReplaceTime(base,
                   (ClockMinutes(e[1]) % Hours(12))
                   + (IF e[2] = "pm" THEN Hours(12) ELSE 0))) >>
        ELSE IF e = <<"tomorrow">> THEN << base + Day >>
        ELSE IF e = <<"today">> THEN << base >>
        ELSE IF Len(e) = 1 /\ e[1] \in WeekdayWords
        THEN LET d == (WeekdayIndex(e[1]) - Weekday(base)) % 7
             IN << Combine(DateOf(base) + (IF d = 0 THEN 7 ELSE d), 0) >>
        ELSE <<>>

\* TIME_OF_DAY, in dict order: <<name, 60 * hour + minute>>
TIME_OF_DAY ==
    << <<"morning", 9 * 60>>, <<"afternoon", 14 * 60>>, <<"evening", 18 * 60>>,
       <<"night", 20 * 60>>, <<"noon", 12 * 60>>, <<"midnight", 0>> >>

\* "name in expr": as a substring of the joined lowercase expression
NameIn(name, expr) == \E i \in 1..Len(expr) : WordIn(name, expr[i])

\* expr.replace(name, "").strip(), the words holding the name dropped
WithoutName(name, expr) == SelectSeq(expr, LAMBDA w : ~WordIn(name, w))

\* The loop over TIME_OF_DAY for an expression dateparser did not parse
RECURSIVE TimeOfDayResolve(_, _, _)
TimeOfDayResolve(expr, clock, k) ==
    IF k > Len(TIME_OF_DAY) THEN <<>>
    ELSE LET name == TIME_OF_DAY[k][1]
             hm == TIME_OF_DAY[k][2]
             base_expr == WithoutName(name, expr)
         IN IF ~NameIn(name, expr)
            THEN TimeOfDayResolve(expr, clock, k + 1)
            ELSE IF base_expr # <<>>
                 THEN LET base_date == DateparserParse(base_expr, clock)
                      IN IF base_date # <<>>
                         THEN << ReplaceTime(base_date[1], hm) >>
                         ELSE TimeOfDayResolve(expr, clock, k + 1)
                 ELSE LET today == ReplaceTime(clock, hm)
                      IN << IF today < clock THEN today + Day ELSE today >>

\* The body of the loop over potential_times: the instant of one
\* expression, <<>> when it has none
ResolveExpression(word, clock) ==
    LET expr == LowerText(word)
        parsed == DateparserParse(expr, clock)
    IN IF parsed # <<>> THEN parsed
       ELSE LET tod == TimeOfDayResolve(expr, clock, 1)
            IN IF tod # <<>> THEN tod
               ELSE IF \E i \in 1..7 : NameIn(WeekdayNames[i], expr)
                    THEN LET again == DateparserParse(expr, clock)
                         IN IF again = <<>> THEN <<>>
                            ELSE IF Weekday(again[1]) < 5
                                 THEN << ReplaceTime(again[1], 9 * 60) >>
                                 ELSE << ReplaceTime(again[1], 10 * 60) >>
                    ELSE <<>>

RECURSIVE ResolveAll(_, _)
ResolveAll(potential, clock) ==
    IF potential = <<>> THEN <<>>
    ELSE LET m == Head(potential)
             parsed == ResolveExpression(m.word, clock)
         IN (IF parsed = <<>> THEN <<>>
             ELSE << [entity |-> "TIME", word |-> m.word, start |-> m.start,
                      end |-> m.end, parsed_datetime |-> parsed[1],
                      score |-> 100] >>)
            \o ResolveAll(Tail(potential), clock)

\* time_phrases of the fallback, in list order
TimePhrases ==
    << "morning", "afternoon", "evening", "night", "tomorrow", "friday",
       "monday", "tuesday", "wednesday", "thursday" >>

TimeOfDayOf(name) ==
    (CHOOSE k \in 1..Len(TIME_OF_DAY) : TIME_OF_DAY[k][1] = name)

\* The fallback loop: the first phrase of the text that dateparser parses
RECURSIVE FallbackPhrase(_, _, _)
FallbackPhrase(text, clock, k) ==
    IF k > Len(TimePhrases) THEN <<>>
    ELSE LET phrase == TimePhrases[k]
             parsed == DateparserParse(<<phrase>>, clock)
             at == CHOOSE i \in 1..Len(text) :
                       /\ WordIn(phrase, Lower(text[i]))
                       /\ \A j \in 1..(i - 1) : ~WordIn(phrase, Lower(text[j]))
         IN IF NameIn(phrase, LowerText(text)) /\ parsed # <<>>
            THEN << [entity |-> "TIME", word |-> <<phrase>>, start |-> at,
                     end |-> at + 1,
                     parsed_datetime |->
                         IF \E j \in 1..Len(TIME_OF_DAY) : TIME_OF_DAY[j][1] = phrase
                         THEN ReplaceTime(parsed[1], TIME_OF_DAY[TimeOfDayOf(phrase)][2])
                         ELSE parsed[1],
                     score |-> 90] >>
            ELSE FallbackPhrase(text, clock, k + 1)

\* _extract_time_entities, with datetime.now() = clock
extract_time_entities(text, clock) ==
    LET time_entities == ResolveAll(PotentialTimes(text, 1), clock)
    IN IF time_entities # <<>> THEN time_entities
       ELSE FallbackPhrase(text, clock, 1)

\* re.search(r'\d{1,2}:\d{2}|\d{1,2}\s*(am|pm)', time_word, re.IGNORECASE)
HasClockTime(time_word) ==
    \/ \E i \in 1..Len(time_word) : time_word[i] \in ClockWords
    \/ \E i \in 1..(Len(time_word) - 1) :
           time_word[i] \in HourWords /\ time_word[i + 1] \in Meridiems

\* any(act in activity.lower() for act in acts)
ActivityNames(acts, activity) ==
    \E a \in acts : NameIn(a, LowerText(activity))

\* The duration _get_time_range starts from, by activity
ActivityDuration(activity) ==
    IF ActivityNames({"lunch", "dinner", "breakfast"}, activity) THEN 90
    ELSE IF ActivityNames({"meeting", "discuss"}, activity) THEN 60
    ELSE IF ActivityNames({"call"}, activity) THEN 30
    ELSE IF ActivityNames({"checkup", "appointment"}, activity) THEN 45
    ELSE IF ActivityNames({"recital", "concert", "performance"}, activity)
         THEN Hours(2)
    ELSE 60

\* A _get_time_range whose activity rules come before the windows of a
\* part of the day and of a bare weekday
get_time_range_activity_first(time_entity, activity) ==
    LET start_time == time_entity.parsed_datetime
        time_word == LowerText(time_entity.word)
        by_activity ==
            ActivityNames({"lunch", "dinner", "breakfast", "meeting", "discuss",
                           "call", "checkup", "appointment", "recital",
                           "concert", "performance"}, activity)
        window ==
            IF HasClockTime(time_word) THEN 60
            ELSE IF NameIn("morning", time_word) THEN Hours(3)
            ELSE IF NameIn("afternoon", time_word) THEN Hours(4)
            ELSE IF NameIn("evening", time_word) THEN Hours(3)
            ELSE IF \E i \in 1..7 : NameIn(WeekdayNames[i], time_word)
                 THEN (IF Weekday(start_time) < 5 THEN Hours(8) ELSE Hours(4))
            ELSE 60
    IN << start_time,
          start_time + (IF by_activity THEN ActivityDuration(activity)
                        ELSE window) >>

\* _get_time_range: <<start_time, end_time>>
get_time_range(time_entity, activity) ==
    LET start_time == time_entity.parsed_datetime
        time_word == LowerText(time_entity.word)
        default == <<start_time, start_time + ActivityDuration(activity)>>
    IN IF NameIn("morning", time_word)
       THEN IF ~HasClockTime(time_word)
            THEN <<start_time, start_time + Hours(3)>> ELSE default
       ELSE IF NameIn("afternoon", time_word)
       THEN IF ~HasClockTime(time_word)
            THEN <<start_time, start_time + Hours(4)>> ELSE default
       ELSE IF NameIn("evening", time_word)
       THEN IF ~HasClockTime(time_word)
            THEN <<start_time, start_time + Hours(3)>> ELSE default
       ELSE IF \E i \in 1..7 : NameIn(WeekdayNames[i], time_word)
       THEN IF ~HasClockTime(time_word)
            THEN IF Weekday(start_time) < 5
                 THEN <<start_time, start_time + Hours(8)>>
                 ELSE <<start_time, start_time + Hours(4)>>
            ELSE default
       ELSE default

\* The outcome of a call: the value returned, or the exception raised, and
\* the number of calls made on the entity recognizer
Returned(commitments, calls) ==
    [ raised |-> FALSE, commitments |-> commitments, nerCalls |-> calls ]

Raised(calls) ==
    [ raised |-> TRUE, commitments |-> <<>>, nerCalls |-> calls ]

\* HuggingFaceONYXTransformerCommitmentIdentifier.identify_commitments,
\* with datetime.now() = clock; ner is what self.ner_pipeline(text) does
hf_identify_commitments(communication, ner, clock) ==
    LET
        LocationSentinel == <<"location", "mentioned", "in", "message">>
        \* The first LOC entity of the recognizer's output, <<>> for None
        FirstLocation(entities) ==
            LET
                LocationLabels == {"LOC", "B-LOC", "I-LOC", "LOCATION"}
            IN
            LET locs == SelectSeq(entities, LAMBDA e : e.entity \in LocationLabels)
            IN IF locs = <<>> THEN <<>> ELSE <<locs[1]>>
    IN
    LET text == communication.content
    IN IF text = <<>> THEN Returned(<<>>, 0)
       ELSE IF ~has_commitment_intent(text) THEN Returned(<<>>, 0)
       ELSE IF ner.raises THEN Raised(1)
       ELSE
         LET standard_entities == ner.entities
             time_entities == extract_time_entities(text, clock)
             location_entity == FirstLocation(standard_entities)
             found == extract_person_entities(standard_entities)
             person == IF found = <<>> THEN communication.recipient ELSE found
             activity == extract_activity(text)
         IN IF time_entities # <<>>
            THEN LET range == get_time_range(time_entities[1], activity)
                     where == IF location_entity # <<>>
                              THEN location_entity[1].word
                              ELSE LocationSentinel
                 IN Returned(<< Commitment(range[1], range[2], person,
                                           activity, where) >>, 1)
            ELSE Returned(<<>>, 1)

---------------------------------------------------------------------------
(* SpaCyCommitmentIdentifier *)

\* list(doc.sents): the text cut after each full stop
RECURSIVE Sents(_, _)
Sents(text, cur) ==
    IF text = <<>> THEN (IF cur = <<>> THEN <<>> ELSE <<cur>>)
    ELSE IF Head(text) = "."
         THEN << cur \o <<".">> >> \o Sents(Tail(text), <<>>)
         ELSE Sents(Tail(text), cur \o <<Head(text)>>)

\* self.commitment_indicators, lower-cased; the loop's check against it is
\* commented out
commitment_indicators ==
    { <<"i", "will">>, <<"i'll">>, <<"i'm", "going", "to">>,
      <<"i", "am", "going", "to">>, <<"i", "can">>, <<"i", "promise", "to">>,
      <<"i", "commit", "to">>, <<"i", "agree", "to">>, <<"i", "plan", "to">>,
      <<"let", "me">>, <<"i", "intend", "to">>, <<"i", "shall">> }

FirstPersonIndicators ==
    { <<"i", "will">>, <<"i'll">>, <<"i'm", "going">>, <<"i", "am", "going">>,
      <<"i", "can">>, <<"i", "promise">>, <<"i", "commit">>, <<"i", "agree">>,
      <<"i", "plan">>, <<"i", "intend">>, <<"i", "shall">> }

Conjunctions == << "and", "or", "then", "plus" >>

\* The pattern  conj \s+ we \s+ (can|will|'ll|'re going|are going)  at word i
ConjWeAt(conj, text, i) ==
    /\ i + 2 <= Len(text)
    /\ text[i] = conj
    /\ text[i + 1] = "we"
    /\ \/ text[i + 2] \in {"can", "will", "'ll"}
       \/ i + 3 <= Len(text) /\ text[i + 2] \in {"are", "'re"}
                             /\ text[i + 3] = "going"

\* The loop over the conjunctions: the segments of the first that matches
RECURSIVE SplitAtConjunction(_, _)
SplitAtConjunction(text, c) ==
    IF c > Len(Conjunctions) THEN <<>>
    ELSE LET low == LowerText(text)
         IN IF \E i \in 1..Len(text) : ConjWeAt(Conjunctions[c], low, i)
            THEN LET at == CHOOSE i \in 1..Len(text) :
                               /\ ConjWeAt(Conjunctions[c], low, i)
                               /\ \A j \in 1..(i - 1) :
                                      ~ConjWeAt(Conjunctions[c], low, j)
                     first_part == SubSeq(text, 1, at - 1)
                     second_part == SubSeq(text, at, Len(text))
                 IN (IF AnyPhraseIn(FirstPersonIndicators, LowerText(first_part))
                     THEN <<first_part>> ELSE <<>>) \o <<second_part>>
            ELSE SplitAtConjunction(text, c + 1)

\* _split_sentence_for_commitments
split_sentence_for_commitments(text) ==
    LET
        WeIndicators ==
            { <<"we", "can">>, <<"we", "will">>, <<"we'll">>, <<"we're", "going">>,
              <<"we", "are", "going">> }
    IN
    LET has_first_person == AnyPhraseIn(FirstPersonIndicators, LowerText(text))
        has_we == AnyPhraseIn(WeIndicators, LowerText(text))
        segments == IF has_first_person /\ has_we
                    THEN SplitAtConjunction(text, 1) ELSE <<>>
    IN IF segments # <<>> THEN segments ELSE <<text>>

\* _extract_what on the parse of a segment: for the first "I"/"we" the
\* parser tags as subject (nsubj) with a non-empty verb phrase, that
\* phrase; here the words that follow the subject.  <<>> for None.
RECURSIVE extract_what(_, _, _)
extract_what(segment, nsubj, i) ==
    LET
        \* The words spaCy's tokenizer reads as the token "I" or "we"
        SubjectWords == {"i", "we", "i'll", "we'll", "i'm", "we're"}
    IN
    IF i > Len(segment) \/ ~nsubj THEN <<>>
    ELSE LET action_parts ==
                 SelectSeq(SubSeq(segment, i + 1, Len(segment)),
                           LAMBDA w : w # ".")
         IN IF Lower(segment[i]) \in SubjectWords /\ action_parts # <<>>
            THEN action_parts
            ELSE extract_what(segment, nsubj, i + 1)

\* The cleanup of a captured location: the date and time words removed
CleanLocation(captured) ==
    SelectSeq(captured,
              LAMBDA w : Lower(w) \notin (WeekdayWords \cup DayParts
                             \cup ClockWords \cup HourWords \cup Meridiems
                             \cup {"noon", "midnight", "today", "tonight",
                                   "this", "next", "on"}))

\* The words captured by  (at|in)\s+([^.,;]+)  at the first "at" (or "in")
CapturedAfter(prep, text) ==
    LET at == CHOOSE i \in 1..Len(text) :
                  /\ Lower(text[i]) = prep
                  /\ \A j \in 1..(i - 1) : Lower(text[j]) # prep
        rest == SubSeq(text, at + 1, Len(text))
        stop == IF \E i \in 1..Len(rest) : rest[i] = "."
                THEN (CHOOSE i \in 1..Len(rest) :
                          rest[i] = "." /\ \A j \in 1..(i - 1) : rest[j] # ".") - 1
                ELSE Len(rest)
    IN IF \E i \in 1..Len(text) : Lower(text[i]) = prep
       THEN SubSeq(rest, 1, stop) ELSE <<>>

\* _extract_where: the first location entity of the parse, else the cleaned
\* words after "at" or "in"; <<>> for None
extract_where(text, entities) ==
    LET
        SpacyLocationLabels == {"LOC", "GPE", "FAC"}
    IN
    LET locs == SelectSeq(entities, LAMBDA e : e.entity \in SpacyLocationLabels)
        byAt == CleanLocation(CapturedAfter("at", text))
        byIn == CleanLocation(CapturedAfter("in", text))
    IN IF locs # <<>> THEN locs[1].word
       ELSE IF byAt # <<>> THEN byAt
       ELSE byIn

\* A value or an exception, for the helpers that can raise; value <<>> is None
Value(v) == [ raised |-> FALSE, value |-> v ]

Exception == [ raised |-> TRUE, value |-> <<>> ]

\* Whether a Communication's timestamp is a datetime (not None, not a str)
IsDatetime(timestamp) == timestamp.kind = "datetime"

RelativeDays == { <<"today", 0>>, <<"tomorrow", 1>>, <<"tonight", 0>> }

RelativeWords == { p[1] : p \in RelativeDays }

\* <<word, int(group 1), int(group 2)>> for the words of the form
\* \d{1,2}[/-]\d{1,2}
DigitDates == { <<"2/30", 2, 30>>, <<"5/21", 5, 21>> }

\* self.month_names, the entries of the months the texts name
month_names == { <<"feb", 2>>, <<"may", 5>> }

\* datetime(year, month, day).date() for year = reference_time.year = 2025
\* (no text names a year; date 0 is Monday 14 April 2025): <<>> for the
\* ValueError of a day the month does not have
CalendarDate(month, day) ==
    LET days == <<31, 28, 31, 30, 31, 30, 31, 31, 30, 31, 30, 31>>
        before == <<0, 31, 59, 90, 120, 151, 181, 212, 243, 273, 304, 334>>
    IN IF month \in 1..12 /\ day \in 1..days[month]
       THEN << before[month] + day - (before[4] + 14) >>
       ELSE <<>>

\* The date of the first \d{1,2}[/-]\d{1,2} of the text, <<>> when there is
\* none or it is no valid date
AbsoluteDate(text) ==
    IF \E i \in 1..Len(text), d \in DigitDates : d[1] = text[i]
    THEN LET at == CHOOSE i \in 1..Len(text) :
                       /\ \E d \in DigitDates : d[1] = text[i]
                       /\ \A j \in 1..(i - 1) :
                              \A d \in DigitDates : d[1] # text[j]
             d == CHOOSE d \in DigitDates : d[1] = text[at]
         IN IF d[2] \in 1..12 /\ d[3] \in 1..31
            THEN CalendarDate(d[2], d[3]) ELSE <<>>
    ELSE <<>>

\* The date of the first "<month name> \d{1,2}" of the text, <<>> when
\* there is none or it is no valid date
MonthNameDate(text) ==
    LET low == LowerText(text)
        ok(i) == /\ i + 1 <= Len(low)
                 /\ \E m \in month_names : m[1] = low[i]
                 /\ low[i + 1] \in HourWords
    IN IF \E i \in 1..Len(low) : ok(i)
       THEN LET at == CHOOSE i \in 1..Len(low) :
                          ok(i) /\ \A j \in 1..(i - 1) : ~ok(j)
                month == (CHOOSE m \in month_names : m[1] = low[at])[2]
                day == (CHOOSE h \in HourTable : h[1] = low[at + 1])[2]
            IN IF day \in 1..31 THEN CalendarDate(month, day) ELSE <<>>
       ELSE <<>>

\* _extract_date(text, reference_time) for a datetime reference: the date
\* of a relative day word, of "this/next <weekday>", of a date in digits or
\* of a month name and a day; <<>> for None
extract_date(text, reference_time) ==
    LET
        \* The first match of r"\b(this|next)\s+(Monday|...|weekend)\b" in a
        \* lowercase text, as <<qualifier, day>>; <<>> when there is none
        DayMatch(low) ==
            LET ok(i) == /\ i + 1 <= Len(low)
                         /\ low[i] \in {"this", "next"}
                         /\ low[i + 1] \in WeekdayWords \cup {"weekend"}
            IN IF \E i \in 1..Len(low) : ok(i)
               THEN LET at == CHOOSE i \in 1..Len(low) :
                                  ok(i) /\ \A j \in 1..(i - 1) : ~ok(j)
                    IN <<low[at], low[at + 1]>>
               ELSE <<>>
    IN
    LET low == LowerText(text)
        ref == DateOf(reference_time)
        day == DayMatch(low)
    IN IF \E i \in 1..Len(low) : low[i] \in RelativeWords
       THEN LET at == CHOOSE i \in 1..Len(low) :
                          /\ low[i] \in RelativeWords
                          /\ \A j \in 1..(i - 1) : low[j] \notin RelativeWords
            IN << ref + (CHOOSE p \in RelativeDays : p[1] = low[at])[2] >>
       ELSE IF day # <<>>
       THEN LET day_num == WeekdayIndex(IF day[2] = "weekend"
                                         THEN "saturday" ELSE day[2])
                days_to_add == (day_num - Weekday(reference_time)) % 7
            IN << ref + days_to_add + (IF day[1] = "next" THEN 7 ELSE 0) >>
       ELSE IF AbsoluteDate(text) # <<>> THEN AbsoluteDate(text)
       ELSE MonthNameDate(text)

\* _extract_time: Value(<<minute of the day>>) for a clock time with am/pm,
\* else for a named time; Value(<<>>) for None; the ValueError of
\* time(hour, minute) when the converted hour is not in 0..23 (every word
\* of ClockTable has its minute in 0..59)
extract_time(text) ==
    LET low == LowerText(text)
        clock(i) == /\ i + 1 <= Len(text)
                    /\ text[i] \in ClockWords \cup HourWords
                    /\ text[i + 1] \in {"am", "pm", "AM", "PM"}
        named(i) == \E k \in 1..Len(TIME_OF_DAY) : TIME_OF_DAY[k][1] = low[i]
    IN IF \E i \in 1..Len(text) : clock(i)
       THEN LET at == CHOOSE i \in 1..Len(text) :
                          clock(i) /\ \A j \in 1..(i - 1) : ~clock(j)
                hm == IF text[at] \in ClockWords
                      THEN ClockMinutes(text[at])
                      ELSE Hours((CHOOSE p \in HourTable : p[1] = text[at])[2])
                pm == Lower(text[at + 1]) = "pm"
                converted == IF pm /\ hm < Hours(12) THEN hm + Hours(12)
                             ELSE IF ~pm /\ hm \div 60 = 12 THEN hm - Hours(12)
                             ELSE hm
            IN IF converted \div 60 \in 0..23
               THEN Value(<< converted >>) ELSE Exception
       ELSE IF \E i \in 1..Len(text) : named(i)
       THEN LET at == CHOOSE i \in 1..Len(text) :
                          named(i) /\ \A j \in 1..(i - 1) : ~named(j)
            IN Value(<< TIME_OF_DAY[TimeOfDayOf(low[at])][2] >>)
       ELSE Value(<<>>)

\* <<word, amount>> for the words of the form \d+ used as a duration
AmountTable == { <<"0", 0>>, <<"30", 30>>, <<"2", 2>> }

DurationUnits == { <<"minute", 1>>, <<"minutes", 1>>, <<"hour", 60>>,
                   <<"hours", 60>>, <<"day", 24 * 60>>, <<"days", 24 * 60>> }

\* _extract_duration: the minutes of "for <amount> <unit>"; <<>> for None
extract_duration(text) ==
    LET low == LowerText(text)
        ok(i) == /\ i + 2 <= Len(low)
                 /\ low[i] = "for"
                 /\ \E a \in AmountTable : a[1] = low[i + 1]
                 /\ \E u \in DurationUnits : u[1] = low[i + 2]
    IN IF \E i \in 1..Len(low) : ok(i)
       THEN LET at == CHOOSE i \in 1..Len(low) :
                          ok(i) /\ \A j \in 1..(i - 1) : ~ok(j)
            IN << (CHOOSE a \in AmountTable : a[1] = low[at + 1])[2]
                  * (CHOOSE u \in DurationUnits : u[1] = low[at + 2])[2] >>
       ELSE <<>>

\* _extract_time_info(text, reference_time): <<start_time, end_time>>, or
\* the AttributeError of reference_time.date() on a timestamp that is no
\* datetime, or the ValueError of _extract_time
extract_time_info(text, timestamp) ==
    IF ~IsDatetime(timestamp) \/ extract_time(text).raised THEN Exception
    ELSE LET found_date == extract_date(text, timestamp.t)
             found_time == extract_time(text).value
             extracted_date == IF found_date = <<>>
                               THEN DateOf(timestamp.t) ELSE found_date[1]
             extracted_time ==
                 IF found_time # <<>> THEN found_time[1]
                 ELSE IF NameIn("afternoon", LowerText(text))
                         \/ NameIn("evening", LowerText(text))
                      THEN 14 * 60 ELSE 9 * 60
             start_time == Combine(extracted_date, extracted_time)
             found_duration == extract_duration(text)
             duration == IF found_duration = <<>>
                         THEN Hours(1) ELSE found_duration[1]
         IN Value(<<start_time, start_time + duration>>)

\* The (sentence, segment) pairs the two nested loops visit, in order
RECURSIVE SegmentsOf(_)
SegmentsOf(sentences) ==
    IF sentences = <<>> THEN <<>>
    ELSE LET s == Head(sentences)
             segs == split_sentence_for_commitments(s)
         IN [ i \in 1..Len(segs) |-> [sentence |-> s, segment |-> segs[i]] ]
            \o SegmentsOf(Tail(sentences))

\* The loop body of SpaCyCommitmentIdentifier.identify_commitments over the
\* remaining segments; two recognizer calls a segment (self.nlp(segment)
\* and the one in _extract_where)
RECURSIVE SpacySegments(_, _, _, _, _)
SpacySegments(pairs, communication, ner, commitments, calls) ==
    LET
        UnspecifiedLocation == <<"unspecified", "location">>
    IN
    IF pairs = <<>> THEN Returned(commitments, calls)
    ELSE LET p == Head(pairs)
             what == extract_what(p.segment, ner.nsubj, 1)
             where == extract_where(p.segment, ner.entities)
             time_info == extract_time_info(p.sentence, communication.timestamp)
         IN IF time_info.raised THEN Raised(calls + 2)
            ELSE SpacySegments(
                     Tail(pairs), communication, ner,
                     IF what # <<>>
                     THEN Append(commitments,
                                 Commitment(time_info.value[1], time_info.value[2],
                                            communication.sender, what,
                                            IF where # <<>> THEN where
                                            ELSE UnspecifiedLocation))
                     ELSE commitments,
                     calls + 2)

\* SpaCyCommitmentIdentifier.identify_commitments; ner is what self.nlp does
spacy_identify_commitments(communication, ner) ==
    IF ner.raises THEN Raised(1)
    ELSE SpacySegments(SegmentsOf(Sents(communication.content, <<>>)),
                       communication, ner, <<>>, 1)

\* CommitmentIdentifiable.identify_commitments of the wired identifier
identify_commitments(identifier, communication, ner, clock) ==
    IF identifier = "hf"
    THEN hf_identify_commitments(communication, ner, clock)
    ELSE spacy_identify_commitments(communication, ner)

---------------------------------------------------------------------------
(* CommunicationProcessor *)

\* A process_communication that schedules each reminder at the departure
\* time of its commitment
RemindersAtDeparture(found, clock) ==
    [ raised |-> found.raised,
      commitments |-> found.commitments,
      nerCalls |-> found.nerCalls,
      reminders |-> [ i \in 1..Len(found.commitments) |->
                        from_commitment(
                            found.commitments[i],
                            found.commitments[i].estimated_travel_time
                              + found.commitments[i].estimated_prep_time,
                            clock) ] ]

process_communication_departure(identifier, communication, ner, clock) ==
    RemindersAtDeparture(
        identify_commitments(identifier, communication, ner, clock), clock)

\* The loop of process_communication: Reminder.from_commitment(commitment)
\* for each commitment found
RemindersFor(found, clock) ==
    [ raised |-> found.raised,
      commitments |-> found.commitments,
      nerCalls |-> found.nerCalls,
      reminders |-> [ i \in 1..Len(found.commitments) |->
                        from_commitment(found.commitments[i],
                                        DEFAULT_LEAD_TIME, clock) ] ]

\* CommunicationProcessor.process_communication: the reminders, or the
\* exception of the identifier, which nothing catches here
process_communication(identifier, communication, ner, clock) ==
    RemindersFor(identify_commitments(identifier, communication, ner, clock),
                 clock)

\* Communication(content, sender, recipient, timestamp) from a value that
\* carries all four
Communication(value) ==
    [ content |-> value["content"], sender |-> value["sender"],
      recipient |-> value["recipient"], timestamp |-> value["timestamp"] ]

---------------------------------------------------------------------------
(* The inputs *)

Identifiers == {"hf", "spacy"}

\* Friday 10:00 of week 0
Now0 == Combine(4, 10 * 60)

Senders == { <<>>, <<"Alice">> }

Recipients == { <<>>, <<"Bob">> }

Contents ==
    LET
        Vocab == {"I'll", "we", "call", "tomorrow", "15:30", "morning", "friday", "."}
        \* Longer texts: a date in digits and one with a month name, valid and
        \* not, and a sentence of two commitments
        Scenarios ==
            { <<"I'll", "call", "2/30">>, <<"I'll", "call", "Feb", "30">>,
              <<"I'll", "call", "5/21">>, <<"I'll", "call", "May", "21">>,
              <<"I'll", "call", "tomorrow", "and", "we", "will", "meet", "next",
                "friday">> }
    IN TextsUpTo(Vocab, MaxLen) \cup Scenarios

Datetime(t) == [ kind |-> "datetime", t |-> t ]

NoTimestamp == [ kind |-> "none", t |-> 0 ]

\* The Communications that reach the core: the API fills a missing timestamp
\* with the current time, the queue consumer passes None
Communications ==
    [ content : Contents, sender : Senders, recipient : Recipients,
      timestamp : {Datetime(Now0), NoTimestamp} ]

Entity(label, word, start, end, score) ==
    [ entity |-> label, word |-> word, start |-> start, end |-> end,
      score |-> score ]

Recognition(raises, entities, nsubj) ==
    [ raises |-> raises, entities |-> entities, nsubj |-> nsubj ]

\* The behaviours of the entity recognizer: it raises, or it returns
Recognitions(identifier) ==
    LET
        \* What spaCy's parse may hold for a text
        SpacyEntityLists ==
            { <<>>, << Entity("GPE", <<"Paris">>, 30, 35, 98) >> }
        \* What the NER pipeline may return for a text
        HfEntityLists ==
            { <<>>,
              << Entity("B-PER", <<"Maria">>, 10, 15, 99),
                 Entity("I-PER", <<"Rodriguez">>, 16, 25, 95) >>,
              << Entity("B-LOC", <<"Paris">>, 30, 35, 98) >> }
    IN
    { Recognition(TRUE, <<>>, FALSE) } \cup
    IF identifier = "hf"
    THEN { Recognition(FALSE, e, FALSE) : e \in HfEntityLists }
    ELSE { Recognition(FALSE, e, n) : e \in SpacyEntityLists, n \in BOOLEAN }

---------------------------------------------------------------------------
(* The core called directly: CommunicationProcessor.process_communication *)

Idle ==
    LET
        NoCommitment == Commitment(0, 0, <<>>, <<>>, <<>>)
    IN
    /\ now = Now0
    /\ ticks = 0
    /\ runs = <<>>
    /\ response = <<>>
    /\ published = <<>>
    /\ settled = <<>>
    /\ cbResult = <<>>
    /\ commitment = NoCommitment
    /\ reminder = <<>>
    /\ lastOp = <<>>
    /\ built = <<>>
    /\ ops = 0
    /\ channel = <<>>
    /\ connected = FALSE
    /\ threads = <<>>
    /\ ner_pipeline = <<>>
    /\ service = [ is_consuming |-> FALSE, channel |-> FALSE,
                   consumer_tag |-> FALSE, consumed |-> 0, late |-> 0,
                   timed_out |-> FALSE ]

Init ==
    /\ impl \in Identifiers
    /\ recog \in Recognitions(impl)
    /\ inbound \in Communications
    /\ Idle

\* One call of process_communication on the Communication, at the current
\* wall-clock time
ProcessCommunication ==
    /\ Len(runs) < MaxRuns
    /\ runs' = Append(runs,
                      [ clock |-> now,
                        result |-> process_communication(
                                       impl, Communication(inbound), recog, now) ])
    /\ UNCHANGED <<impl, recog, inbound, now, ticks, response, published,
                   settled, cbResult, commitment, reminder, lastOp, built,
                   ops, channel, connected, threads, ner_pipeline, service>>

\* Time passes
Tick ==
    LET
        TickStep == Hours(12)
    IN
    /\ ticks < MaxTicks
    /\ now' = now + TickStep
    /\ ticks' = ticks + 1
    /\ UNCHANGED <<impl, recog, inbound, runs, response, published, settled,
                   cbResult, commitment, reminder, lastOp, built, ops,
                   channel, connected, threads, ner_pipeline, service>>

Next == ProcessCommunication \/ Tick

Spec == Init /\ [][Next]_vars

---------------------------------------------------------------------------
(* The API entry point: ProcessCommunication.execute *)

\* ReminderResponseDTO(...) for each reminder
ReminderDtos(reminders) ==
    [ i \in 1..Len(reminders) |->
        [ message |-> reminders[i].message,
          when |-> reminders[i].when,
          acknowledged |-> reminders[i].acknowledged,
          commitment_what |-> reminders[i].commitment.what,
          commitment_who |-> reminders[i].commitment.who,
          commitment_start_time |-> reminders[i].commitment.start_time,
          commitment_end_time |-> reminders[i].commitment.end_time,
          commitment_where |-> reminders[i].commitment.where ] ]

\* An execute without the try/except around _publish_results: an exception
\* of the publisher escapes
RespondUnguarded(processed, outcome) ==
    IF processed.raised \/ outcome = "raise"
    THEN [ raised |-> TRUE,
           response |-> [processed |-> FALSE, reminders |-> <<>>],
           publishes |-> <<>> ]
    ELSE [ raised |-> FALSE,
           response |-> [ processed |-> TRUE,
                          reminders |-> ReminderDtos(processed.reminders) ],
           publishes |-> << [ routing_key |-> "communication.processed",
                              processed |-> TRUE,
                              reminders |-> Len(processed.reminders),
                              outcome |-> outcome ] >> ]

execute_unguarded(identifier, dto, ner, clock, outcome) ==
    RespondUnguarded(
        process_communication(identifier, Communication(dto), ner, clock),
        outcome)

\* CommunicationResponseDTO(processed=True, reminders=reminder_dtos)
ResponseDto(reminders) ==
    [ processed |-> TRUE, reminders |-> ReminderDtos(reminders) ]

\* ProcessCommunication._publish_results inside the try/except of execute:
\* one publish_message call, whose outcome is logged and dropped
publish_results(response_dto, outcome) ==
    << [ routing_key |-> "communication.processed",
         processed |-> response_dto.processed,
         reminders |-> Len(response_dto.reminders),
         outcome |-> outcome ] >>

\* The rest of execute after process_communication: an exception of the
\* processor escapes before anything is published
Respond(processed, outcome) ==
    IF processed.raised
    THEN [ raised |-> TRUE,
           response |-> [processed |-> FALSE, reminders |-> <<>>],
           publishes |-> <<>> ]
    ELSE [ raised |-> FALSE,
           response |-> ResponseDto(processed.reminders),
           publishes |-> publish_results(ResponseDto(processed.reminders),
                                         outcome) ]

\* ProcessCommunication.execute: the response returned (or the exception
\* that escaped) and the publish_message calls made
execute(identifier, dto, ner, clock, outcome) ==
    Respond(process_communication(identifier, Communication(dto), ner, clock),
            outcome)

InitApi ==
    LET
        \* The requests of the API: CommunicationRequestDTO fills a missing
        \* timestamp with the current time
        ApiRequests ==
            [ content : Contents, sender : Senders, recipient : Recipients,
              timestamp : {Datetime(Now0)} ]
    IN
    /\ impl \in Identifiers
    /\ recog \in Recognitions(impl)
    /\ inbound \in ApiRequests
    /\ Idle

\* One request through ProcessCommunication.execute
Execute ==
    LET
        \* What message_publisher.publish_message may do: return True, return
        \* False, raise
        PublishOutcomes == {"ok", "false", "raise"}
    IN
    /\ response = <<>>
    /\ \E outcome \in PublishOutcomes :
         \E done \in { execute(impl, inbound, recog, now, outcome) } :
            /\ response' = << [raised |-> done.raised,
                               response |-> done.response] >>
            /\ published' = done.publishes
    /\ UNCHANGED <<impl, recog, inbound, now, ticks, runs, settled, cbResult,
                   commitment, reminder, lastOp, built, ops, channel,
                   connected, threads, ner_pipeline, service>>

SpecApi == InitApi /\ [][Execute]_vars

---------------------------------------------------------------------------
(* The queue entry point: MessageConsumerService *)

\* MessageConsumerService._validate_message
validate_message(message_data) ==
    LET
        RequiredFields == {"content", "sender", "recipient"}
    IN
    \A field \in RequiredFields : field \in DOMAIN message_data

\* message_data.get("timestamp"): None without the key, else the JSON
\* string, which is a str and no datetime
TimestampOf(message_data) ==
    IF "timestamp" \in DOMAIN message_data
    THEN [ kind |-> "str", t |-> 0 ]
    ELSE NoTimestamp

\* The Communication _process_message constructs from a valid message:
\* timestamp=message_data.get("timestamp") is passed explicitly, so the
\* default_factory of the dataclass is not used
MessageCommunication(message_data) ==
    [ content |-> message_data["content"],
      sender |-> message_data["sender"],
      recipient |-> message_data["recipient"],
      timestamp |-> TimestampOf(message_data) ]

\* The value _process_message returns after process_communication:
\* {"error": ...} when it raised, else the result
ResultOf(processed) ==
    IF processed.raised
    THEN [ kind |-> "error", commitments_found |-> 0 ]
    ELSE [ kind |-> "result", commitments_found |-> Len(processed.reminders) ]

\* MessageConsumerService._process_message: None for an invalid message,
\* {"error": ...} when processing raised, else the result
process_message(identifier, message_data, ner, clock) ==
    IF ~validate_message(message_data)
    THEN [ kind |-> "none", commitments_found |-> 0 ]
    ELSE ResultOf(process_communication(
                      identifier, MessageCommunication(message_data),
                      ner, clock))

\* What RabbitMQMessageConsumer.acknowledge_message and reject_message may
\* do: return True, or return False (no channel, or pika raised and the
\* adapter caught it)
SettleOutcomes == {"ok", "failed"}

\* self.message_consumer.acknowledge_message(message_id) and what it did
Ack(outcome) ==
    [ call |-> "acknowledge_message", requeue |-> FALSE, outcome |-> outcome ]

\* self.message_consumer.reject_message(message_id, requeue=requeue)
Reject(requeue, outcome) ==
    [ call |-> "reject_message", requeue |-> requeue, outcome |-> outcome ]

\* A _message_callback without the return after the acknowledge: it falls
\* through to the reject
SettleFallthrough(result, outcome) ==
    IF result.kind = "result"
    THEN [ returned |-> result,
           calls |-> <<Ack(outcome), Reject(FALSE, outcome)>> ]
    ELSE [ returned |-> result, calls |-> <<Reject(FALSE, outcome)>> ]

message_callback_fallthrough(identifier, message_data, ner, clock, outcome) ==
    SettleFallthrough(process_message(identifier, message_data, ner, clock),
                      outcome)

\* The settlement of _message_callback after _process_message: the value
\* returned and the calls made on the message consumer; a call that raises
\* is followed by the reject of the except branch
Settle(result, outcome) ==
    LET none == [ kind |-> "none", commitments_found |-> 0 ]
    IN IF result.kind = "result"
       THEN IF outcome = "raise"
            THEN [ returned |-> none,
                   calls |-> <<Ack(outcome), Reject(TRUE, outcome)>> ]
            ELSE [ returned |-> result, calls |-> <<Ack(outcome)>> ]
       ELSE IF outcome = "raise"
            THEN [ returned |-> none,
                   calls |-> <<Reject(FALSE, outcome), Reject(TRUE, outcome)>> ]
            ELSE [ returned |-> result, calls |-> <<Reject(FALSE, outcome)>> ]

\* MessageConsumerService._message_callback
message_callback(identifier, message_data, ner, clock, outcome) ==
    Settle(process_message(identifier, message_data, ner, clock), outcome)

InitQueue ==
    LET
        \* The messages of the queue: any of the keys may be missing
        QueueMessages ==
            LET
                \* A queue message with the keys K
                Message(K, content, sender, recipient) ==
                    LET
                        IsoTimestamp == <<"2025-04-19T10:00:00">>
                    IN
                    [ k \in K |-> IF k = "content" THEN content
                                  ELSE IF k = "sender" THEN sender
                                  ELSE IF k = "recipient" THEN recipient
                                  ELSE IsoTimestamp ]
                MessageKeys == {"content", "sender", "recipient", "timestamp"}
            IN
            { Message(K, c, s, r) :
                K \in SUBSET MessageKeys, c \in Contents, s \in Senders,
                r \in Recipients }
    IN
    /\ impl \in Identifiers
    /\ recog \in Recognitions(impl)
    /\ inbound \in QueueMessages
    /\ Idle

\* One message through _message_callback
MessageCallback ==
    /\ cbResult = <<>>
    /\ \E outcome \in SettleOutcomes :
         \E done \in { message_callback(impl, inbound, recog, now, outcome) } :
            /\ cbResult' = << done.returned >>
            /\ settled' = done.calls
    /\ built' = IF validate_message(inbound)
                THEN << MessageCommunication(inbound) >> ELSE <<>>
    /\ UNCHANGED <<impl, recog, inbound, now, ticks, runs, response,
                   published, commitment, reminder, lastOp, ops, channel,
                   connected, threads, ner_pipeline, service>>

SpecQueue == InitQueue /\ [][MessageCallback]_vars

---------------------------------------------------------------------------
(* Reminders built directly from a Commitment *)

InitReminder ==
    LET
        \* Commitments with any estimated travel and preparation time
        Commitments ==
            LET
                PrepTimes == {0, DEFAULT_PREP_TIME, 10}
                TravelTimes == {0, DEFAULT_TRAVEL_TIME, 25}
                StartTimes == { Now0 + Hours(1), Now0 + Hours(5), Now0 + Day, Now0 + 3 * Day }
            IN
            { [ Commitment(s, s + Hours(1), <<"Bob">>, <<"Call">>, <<"Paris">>)
                  EXCEPT !.estimated_travel_time = tr, !.estimated_prep_time = pr ] :
                s \in StartTimes, tr \in TravelTimes, pr \in PrepTimes }
    IN
    /\ impl = "hf"
    /\ recog = Recognition(FALSE, <<>>, FALSE)
    /\ inbound = [ content |-> <<>>, sender |-> <<>>, recipient |-> <<>>,
                   timestamp |-> Datetime(Now0) ]
    /\ now = Now0
    /\ ticks = 0
    /\ runs = <<>>
    /\ response = <<>>
    /\ published = <<>>
    /\ settled = <<>>
    /\ cbResult = <<>>
    /\ commitment \in Commitments
    /\ reminder = <<>>
    /\ lastOp = <<>>
    /\ built = <<>>
    /\ ops = 0
    /\ channel = <<>>
    /\ connected = FALSE
    /\ threads = <<>>
    /\ ner_pipeline = <<>>
    /\ service = [ is_consuming |-> FALSE, channel |-> FALSE,
                   consumer_tag |-> FALSE, consumed |-> 0, late |-> 0,
                   timed_out |-> FALSE ]

\* A from_commitment whose default lead is the travel and preparation time
FromCommitmentDeparture ==
    /\ reminder = <<>>
    /\ reminder' = << from_commitment(commitment,
                                      commitment.estimated_travel_time
                                        + commitment.estimated_prep_time,
                                      now) >>
    /\ lastOp' = << [ op |-> "from_commitment", lead_time |-> <<>> ] >>
    /\ UNCHANGED <<impl, recog, inbound, now, ticks, runs, response,
                   published, settled, cbResult, commitment, built, ops,
                   channel, connected, threads, ner_pipeline, service>>

\* Reminder.from_commitment(commitment)
FromCommitment ==
    /\ reminder = <<>>
    /\ reminder' = << from_commitment(commitment, DEFAULT_LEAD_TIME, now) >>
    /\ lastOp' = << [ op |-> "from_commitment", lead_time |-> <<>> ] >>
    /\ UNCHANGED <<impl, recog, inbound, now, ticks, runs, response,
                   published, settled, cbResult, commitment, built, ops,
                   channel, connected, threads, ner_pipeline, service>>

\* Reminder.from_commitment(commitment, lead_time=lead)
FromCommitmentLead ==
    LET
        LeadTimes == {0, 10, 60}
    IN
    /\ reminder = <<>>
    /\ \E lead \in LeadTimes :
         /\ reminder' = << from_commitment(commitment, lead, now) >>
         /\ lastOp' = << [ op |-> "from_commitment", lead_time |-> <<lead>> ] >>
    /\ UNCHANGED <<impl, recog, inbound, now, ticks, runs, response,
                   published, settled, cbResult, commitment, built, ops,
                   channel, connected, threads, ner_pipeline, service>>

\* The record of an operation called on the Reminder `before`
Called(op, arg, before, result) ==
    [ op |-> op, arg |-> arg, before |-> before, clock |-> now,
      result |-> result ]

\* reminder.acknowledge()
Acknowledge ==
    /\ reminder # <<>>
    /\ ops < MaxOps
    /\ reminder' = << acknowledge(reminder[1]) >>
    /\ lastOp' = << Called("acknowledge", <<>>, reminder[1], <<>>) >>
    /\ ops' = ops + 1
    /\ UNCHANGED <<impl, recog, inbound, now, ticks, runs, response,
                   published, settled, cbResult, commitment, built, channel,
                   connected, threads, ner_pipeline, service>>

\* reminder.snooze(duration)
Snooze ==
    LET
        \* The durations a Reminder is snoozed by
        SnoozeDurations == {-30, 10, 720}
    IN
    /\ reminder # <<>>
    /\ ops < MaxOps
    /\ \E duration \in SnoozeDurations :
         /\ reminder' = << snooze(reminder[1], duration) >>
         /\ lastOp' = << Called("snooze", <<duration>>, reminder[1], <<>>) >>
    /\ ops' = ops + 1
    /\ UNCHANGED <<impl, recog, inbound, now, ticks, runs, response,
                   published, settled, cbResult, commitment, built, channel,
                   connected, threads, ner_pipeline, service>>

\* reminder.is_due()
IsDue ==
    /\ reminder # <<>>
    /\ ops < MaxOps
    /\ lastOp' = << Called("is_due", <<>>, reminder[1],
                           << is_due(reminder[1], now) >>) >>
    /\ ops' = ops + 1
    /\ UNCHANGED <<impl, recog, inbound, now, ticks, runs, response,
                   published, settled, cbResult, commitment, reminder, built,
                   channel, connected, threads, ner_pipeline, service>>

NextReminder ==
    \/ FromCommitment
    \/ FromCommitmentLead
    \/ Acknowledge
    \/ Snooze
    \/ IsDue
    \/ Tick

SpecReminder == InitReminder /\ [][NextReminder]_vars


---------------------------------------------------------------------------
(* The RabbitMQ adapters: RabbitMQMessagePublisher, and
   RabbitMQMessageConsumer._on_message called by pika for a delivery *)

\* What a call into pika does: it returns, or raises an AMQPError or
\* another exception
PikaOutcomes == {"ok", "AMQPError", "Exception"}

\* A call made on a channel and what it did
ChannelCall(call, args, outcome) ==
    [ call |-> call, args |-> args, outcome |-> outcome ]

\* What an adapter method did: its return value (<<>> when an exception left
\* it) and the channel calls it made
Outcome(result, raised, calls) ==
    [ result |-> result, raised |-> raised, calls |-> calls ]

\* _ensure_exchange_exists, with what exchange_declare does
ensure_exchange_exists(channel_set, declare) ==
    IF ~channel_set THEN Outcome(<<FALSE>>, FALSE, <<>>)
    ELSE LET calls == << ChannelCall("exchange_declare", <<>>, declare) >>
         IN IF declare = "ok" THEN Outcome(<<TRUE>>, FALSE, calls)
            ELSE IF declare = "AMQPError" THEN Outcome(<<FALSE>>, FALSE, calls)
            ELSE Outcome(<<>>, TRUE, calls)

\* The rest of publish_message once the exchange was declared
PublishBody(serialisable, publish, calls) ==
    IF ~serialisable THEN Outcome(<<FALSE>>, FALSE, calls)
    ELSE Outcome(<< publish = "ok" >>, FALSE,
                 Append(calls, ChannelCall("basic_publish", <<>>, publish)))

\* A publish_message that handles AMQPError only
publish_message_amqp_only(channel_set, declare, serialisable, publish) ==
    IF ~channel_set THEN Outcome(<<FALSE>>, FALSE, <<>>)
    ELSE LET ensured == ensure_exchange_exists(channel_set, declare)
         IN IF ensured.raised THEN ensured
            ELSE IF ~ensured.result[1] THEN ensured
            ELSE IF ~serialisable THEN Outcome(<<>>, TRUE, ensured.calls)
            ELSE IF publish = "Exception"
                 THEN Outcome(<<>>, TRUE,
                              Append(ensured.calls,
                                     ChannelCall("basic_publish", <<>>, publish)))
            ELSE PublishBody(serialisable, publish, ensured.calls)

\* publish_message: channel_set is "self._channel is not None",
\* serialisable whether json.dumps(message) returns
publish_message(channel_set, declare, serialisable, publish) ==
    IF ~channel_set THEN Outcome(<<FALSE>>, FALSE, <<>>)
    ELSE LET ensured == ensure_exchange_exists(channel_set, declare)
         IN IF ensured.raised THEN Outcome(<<FALSE>>, FALSE, ensured.calls)
            ELSE IF ~ensured.result[1] THEN ensured
            ELSE PublishBody(serialisable, publish, ensured.calls)

\* The bodies a delivery carries: a JSON object, another JSON value, text
\* that is no JSON, bytes that are no UTF-8 text
Bodies == {"object", "value", "malformed", "undecodable"}

\* The handler of _on_message: basic_reject, which may itself raise
Rejected(called, delivery_tag, requeue, reject) ==
    [ called |-> called,
      raised |-> reject # "ok",
      calls |-> << ChannelCall("basic_reject", <<delivery_tag, requeue>>,
                               reject) >> ]

\* _on_message(channel, method, properties, body): whether the callback
\* was called, whether an exception left the method, the channel calls
on_message(body, delivery_tag, callback, reject) ==
    LET
        \* json.loads(body): what it returns or raises
        json_loads(b) ==
            CASE b = "object" -> [ raised |-> <<>>, value |-> "dict" ]
              [] b = "value" -> [ raised |-> <<>>, value |-> "other" ]
              [] b = "malformed" ->
                     [ raised |-> <<"JSONDecodeError">>, value |-> "" ]
              [] b = "undecodable" ->
                     [ raised |-> <<"UnicodeDecodeError">>, value |-> "" ]
        loaded == json_loads(body)
    IN IF loaded.raised = <<"JSONDecodeError">>
       THEN Rejected(FALSE, delivery_tag, FALSE, reject)
       ELSE IF loaded.raised # <<>> \/ loaded.value # "dict"
       THEN Rejected(FALSE, delivery_tag, TRUE, reject)
       ELSE IF callback \in {"none", "returns"}
       THEN [ called |-> callback # "none", raised |-> FALSE, calls |-> <<>> ]
       ELSE Rejected(TRUE, delivery_tag, callback # "JSONDecodeError", reject)

InitMessaging ==
    /\ impl = "hf"
    /\ recog = Recognition(FALSE, <<>>, FALSE)
    /\ inbound = [ k \in {} |-> <<>> ]
    /\ Idle

\* publisher.connect(): pika.BlockingConnection(parameters) and
\* connection.channel()
Connect ==
    /\ ops < MaxOps
    /\ \E outcome \in PikaOutcomes :
         /\ connected' = (connected \/ outcome = "ok")
         /\ lastOp' = << [ op |-> "connect",
                           result |-> IF outcome = "Exception" THEN <<>>
                                      ELSE << outcome = "ok" >>,
                           raised |-> outcome = "Exception" ] >>
    /\ ops' = ops + 1
    /\ UNCHANGED <<impl, recog, inbound, now, ticks, runs, response,
                   published, settled, cbResult, commitment, reminder, built,
                   channel, threads, ner_pipeline, service>>

\* publisher.publish_message(exchange, routing_key, message)
PublishMessage ==
    /\ ops < MaxOps
    /\ \E declare \in PikaOutcomes, serialisable \in BOOLEAN,
          publish \in PikaOutcomes :
         \E done \in { publish_message(connected, declare, serialisable,
                                       publish) } :
           /\ lastOp' = << [ op |-> "publish_message",
                             channel_set |-> connected,
                             declare |-> declare,
                             serialisable |-> serialisable,
                             publish |-> publish,
                             result |-> done.result,
                             raised |-> done.raised,
                             calls |-> done.calls ] >>
           /\ channel' = channel \o done.calls
    /\ ops' = ops + 1
    /\ UNCHANGED <<impl, recog, inbound, now, ticks, runs, response,
                   published, settled, cbResult, commitment, reminder, built,
                   connected, threads, ner_pipeline, service>>

\* pika delivers a message: consumer._on_message(channel, method,
\* properties, body)
OnMessage ==
    LET
        \* self._callback: not set, or what it does when called
        Callbacks == {"none", "returns", "Exception", "JSONDecodeError"}
    IN
    /\ ops < MaxOps
    /\ \E body \in Bodies, callback \in Callbacks,
          reject \in PikaOutcomes \ {"AMQPError"} :
         \E done \in { on_message(body, ops + 1, callback, reject) } :
           /\ lastOp' = << [ op |-> "on_message",
                             body |-> body,
                             delivery_tag |-> ops + 1,
                             callback |-> callback,
                             called |-> done.called,
                             raised |-> done.raised,
                             calls |-> done.calls ] >>
           /\ channel' = channel \o done.calls
    /\ ops' = ops + 1
    /\ UNCHANGED <<impl, recog, inbound, now, ticks, runs, response,
                   published, settled, cbResult, commitment, reminder, built,
                   connected, threads, ner_pipeline, service>>

NextMessaging == Connect \/ PublishMessage \/ OnMessage

SpecMessaging == InitMessaging /\ [][NextMessaging]_vars

---------------------------------------------------------------------------
(* The person resolver called on the recognizer's output *)

InitResolver ==
    LET
        \* The PERSON spans of a text: a name of one or two words or a lowercase
        \* word, five characters long, with a gap of two or three characters to
        \* the next, each with its confidence
        PersonEntities ==
            { Entity("B-PER", word, start, start + 5, score) :
                word \in { <<"Maria">>, <<"rodriguez">>, <<"Maria", "Rodriguez">> },
                start \in {0, 7, 15},
                score \in {90, 99} }
    IN
    /\ impl = "hf"
    /\ recog \in { Recognition(FALSE, e, FALSE) :
                     e \in TextsUpTo(PersonEntities, MaxSpans) }
    /\ inbound = [ k \in {} |-> <<>> ]
    /\ Idle

\* self._extract_person_entities(text, standard_entities)
ExtractPersonEntities ==
    /\ lastOp = <<>>
    /\ lastOp' = << [ op |-> "extract_person_entities",
                      result |-> extract_person_entities(recog.entities) ] >>
    /\ UNCHANGED <<impl, recog, inbound, now, ticks, runs, response,
                   published, settled, cbResult, commitment, reminder, built,
                   ops, channel, connected, threads, ner_pipeline, service>>

SpecResolver == InitResolver /\ [][ExtractPersonEntities]_vars

---------------------------------------------------------------------------
(* The spaCy identifier's time extraction called on a sentence *)

\* A sentence and the communication's timestamp, a datetime on any day of
\* the week
InitTimeInfo ==
    LET
        \* The sentences that name a time: "this/next <day>" and a clock time with
        \* its am/pm marker
        TimeTexts ==
            { <<q, d>> : q \in {"this", "next"}, d \in WeekdayWords \cup {"weekend"} }
            \cup { <<h, m>> : h \in HourWords \cup ClockWords, m \in {"am", "pm", "PM"} }
    IN
    /\ impl = "spacy"
    /\ recog = Recognition(FALSE, <<>>, FALSE)
    /\ inbound \in [ content : TimeTexts,
                      timestamp : { Datetime(Combine(d, 10 * 60)) : d \in 0..6 } ]
    /\ Idle

\* self._extract_time_info(sentence.text, communication.timestamp), with what its
\* calls of _extract_date and _extract_time gave
ExtractTimeInfo ==
    /\ lastOp = <<>>
    /\ lastOp' = << [ op |-> "extract_time_info",
                      date |-> extract_date(inbound.content, inbound.timestamp.t),
                      time |-> extract_time(inbound.content),
                      result |-> extract_time_info(inbound.content,
                                                   inbound.timestamp) ] >>
    /\ UNCHANGED <<impl, recog, inbound, now, ticks, runs, response,
                   published, settled, cbResult, commitment, reminder, built,
                   ops, channel, connected, threads, ner_pipeline, service>>

SpecTimeInfo == InitTimeInfo /\ [][ExtractTimeInfo]_vars

---------------------------------------------------------------------------
(* Concurrent identify_commitments calls on one HuggingFace identifier *)

\* threads with thread i at a new position: pc is its position in the
\* ner_pipeline property, loaded whether its pipeline(...) call returned
Moved(i, pc, loaded) ==
    [ threads EXCEPT ![i] = [ pc |-> pc, loaded |-> loaded ] ]

\* An identifier constructed without a pipeline: self._ner_pipeline = None
InitLoader ==
    /\ impl = "hf"
    /\ recog = Recognition(FALSE, <<>>, FALSE)
    /\ inbound = [ k \in {} |-> <<>> ]
    /\ Idle

\* A thread calls identify_commitments and reaches self.ner_pipeline
CallIdentify ==
    /\ Len(threads) < MaxThreads
    /\ threads' = Append(threads, [ pc |-> "check", loaded |-> FALSE ])
    /\ UNCHANGED <<impl, recog, inbound, now, ticks, runs, response,
                   published, settled, cbResult, commitment, reminder,
                   lastOp, built, ops, channel, connected, ner_pipeline,
                   service>>

\* if self._ner_pipeline is None
CheckLoaded(i) ==
    /\ threads[i].pc = "check"
    /\ threads' = Moved(i, IF ner_pipeline = <<>> THEN "load" ELSE "return",
                        FALSE)
    /\ UNCHANGED <<impl, recog, inbound, now, ticks, runs, response,
                   published, settled, cbResult, commitment, reminder,
                   lastOp, built, ops, channel, connected, ner_pipeline,
                   service>>

\* pipeline("ner", model=self.model_name): the model is loaded into a new
\* instance, named by the thread that made it
LoadModel(i) ==
    /\ threads[i].pc = "load"
    /\ threads' = Moved(i, "store", TRUE)
    /\ UNCHANGED <<impl, recog, inbound, now, ticks, runs, response,
                   published, settled, cbResult, commitment, reminder,
                   lastOp, built, ops, channel, connected, ner_pipeline,
                   service>>

\* self._ner_pipeline = <the new instance>
StoreModel(i) ==
    /\ threads[i].pc = "store"
    /\ ner_pipeline' = <<i>>
    /\ threads' = Moved(i, "return", TRUE)
    /\ UNCHANGED <<impl, recog, inbound, now, ticks, runs, response,
                   published, settled, cbResult, commitment, reminder,
                   lastOp, built, ops, channel, connected, service>>

\* return self._ner_pipeline
ReturnModel(i) ==
    /\ threads[i].pc = "return"
    /\ threads' = Moved(i, "done", threads[i].loaded)
    /\ UNCHANGED <<impl, recog, inbound, now, ticks, runs, response,
                   published, settled, cbResult, commitment, reminder,
                   lastOp, built, ops, channel, connected, ner_pipeline,
                   service>>

NextLoader ==
    \/ CallIdentify
    \/ \E i \in 1..Len(threads) : CheckLoaded(i)
    \/ \E i \in 1..Len(threads) : LoadModel(i)
    \/ \E i \in 1..Len(threads) : StoreModel(i)
    \/ \E i \in 1..Len(threads) : ReturnModel(i)

SpecLoader == InitLoader /\ [][NextLoader]_vars

---------------------------------------------------------------------------
(* MessageConsumerService.start(block=False) and stop(), with the consumer
   thread.  threads[1] is the caller, threads[2] the thread of
   _consumer_loop; service holds is_consuming, whether the consumer holds a
   channel and a consumer tag, how many messages it consumed, how many of
   them after stop() returned, and whether the join timed out *)

\* A service constructed and not started
InitService ==
    /\ impl = "hf"
    /\ recog = Recognition(FALSE, <<>>, FALSE)
    /\ inbound = [ k \in {} |-> <<>> ]
    /\ Idle

\* start(block=False): connect, is_consuming = True, the thread started;
\* or connect() failed and start returned
Start ==
    /\ threads = <<>>
    /\ \E ok \in BOOLEAN :
           IF ok
           THEN /\ service' = [ service EXCEPT !.is_consuming = TRUE,
                                               !.channel = TRUE ]
                /\ threads' = << [ pc |-> "started" ], [ pc |-> "connect" ] >>
           ELSE /\ threads' = << [ pc |-> "started" ] >>
                /\ UNCHANGED service
    /\ UNCHANGED <<impl, recog, inbound, now, ticks, runs, response,
                   published, settled, cbResult, commitment, reminder,
                   lastOp, built, ops, channel, connected, ner_pipeline>>

\* stop(): return if not self.is_consuming, else self.is_consuming = False
StopBegin ==
    /\ threads # <<>>
    /\ threads[1].pc = "started"
    /\ IF service.is_consuming
       THEN /\ service' = [ service EXCEPT !.is_consuming = FALSE ]
            /\ threads' = [ threads EXCEPT ![1].pc = "disconnect" ]
       ELSE /\ threads' = [ threads EXCEPT ![1].pc = "stopped" ]
            /\ UNCHANGED service
    /\ UNCHANGED <<impl, recog, inbound, now, ticks, runs, response,
                   published, settled, cbResult, commitment, reminder,
                   lastOp, built, ops, channel, connected, ner_pipeline>>

\* stop(): self.message_consumer.disconnect()
StopDisconnect ==
    /\ threads # <<>>
    /\ threads[1].pc = "disconnect"
    /\ service' = [ service EXCEPT !.channel = FALSE, !.consumer_tag = FALSE ]
    /\ threads' = [ threads EXCEPT ![1].pc = "join" ]
    /\ UNCHANGED <<impl, recog, inbound, now, ticks, runs, response,
                   published, settled, cbResult, commitment, reminder,
                   lastOp, built, ops, channel, connected, ner_pipeline>>

\* stop(): self._consumer_thread.join(timeout=5.0) returns, the thread
\* exited or not (then the warning is logged), and stop() returns
StopJoin ==
    /\ threads # <<>>
    /\ threads[1].pc = "join"
    /\ threads' = [ threads EXCEPT ![1].pc = "stopped" ]
    /\ service' = [ service EXCEPT
                       !.timed_out = Len(threads) = 2 /\ threads[2].pc # "exited" ]
    /\ UNCHANGED <<impl, recog, inbound, now, ticks, runs, response,
                   published, settled, cbResult, commitment, reminder,
                   lastOp, built, ops, channel, connected, ner_pipeline>>

\* _consumer_loop: self.message_consumer.connect()
LoopConnect ==
    /\ Len(threads) = 2
    /\ threads[2].pc = "connect"
    /\ \E ok \in BOOLEAN :
           IF ok
           THEN /\ service' = [ service EXCEPT !.channel = TRUE ]
                /\ threads' = [ threads EXCEPT ![2].pc = "consume" ]
           ELSE /\ threads' = [ threads EXCEPT ![2].pc = "finally" ]
                /\ UNCHANGED service
    /\ UNCHANGED <<impl, recog, inbound, now, ticks, runs, response,
                   published, settled, cbResult, commitment, reminder,
                   lastOp, built, ops, channel, connected, ner_pipeline>>

\* consume_messages up to self._channel.start_consuming()
LoopConsume ==
    /\ Len(threads) = 2
    /\ threads[2].pc = "consume"
    /\ IF service.channel
       THEN /\ service' = [ service EXCEPT !.consumer_tag = TRUE ]
            /\ threads' = [ threads EXCEPT ![2].pc = "consuming" ]
       ELSE /\ threads' = [ threads EXCEPT ![2].pc = "finally" ]
            /\ UNCHANGED service
    /\ UNCHANGED <<impl, recog, inbound, now, ticks, runs, response,
                   published, settled, cbResult, commitment, reminder,
                   lastOp, built, ops, channel, connected, ner_pipeline>>

\* start_consuming hands a message to _on_message
Deliver ==
    /\ Len(threads) = 2
    /\ threads[2].pc = "consuming"
    /\ service.channel /\ service.consumer_tag
    /\ service.consumed < MaxMessages
    /\ service' = [ service EXCEPT
                       !.consumed = @ + 1,
                       !.late = IF threads[1].pc = "stopped" THEN @ + 1 ELSE @ ]
    /\ UNCHANGED threads
    /\ UNCHANGED <<impl, recog, inbound, now, ticks, runs, response,
                   published, settled, cbResult, commitment, reminder,
                   lastOp, built, ops, channel, connected, ner_pipeline>>

\* start_consuming ends: the channel was closed
LoopExit ==
    /\ Len(threads) = 2
    /\ threads[2].pc = "consuming"
    /\ ~service.channel
    /\ threads' = [ threads EXCEPT ![2].pc = "finally" ]
    /\ UNCHANGED service
    /\ UNCHANGED <<impl, recog, inbound, now, ticks, runs, response,
                   published, settled, cbResult, commitment, reminder,
                   lastOp, built, ops, channel, connected, ner_pipeline>>

\* _consumer_loop, finally: disconnect() and self.is_consuming = False
LoopFinally ==
    /\ Len(threads) = 2
    /\ threads[2].pc = "finally"
    /\ service' = [ service EXCEPT !.is_consuming = FALSE, !.channel = FALSE,
                                   !.consumer_tag = FALSE ]
    /\ threads' = [ threads EXCEPT ![2].pc = "exited" ]
    /\ UNCHANGED <<impl, recog, inbound, now, ticks, runs, response,
                   published, settled, cbResult, commitment, reminder,
                   lastOp, built, ops, channel, connected, ner_pipeline>>

NextService ==
    \/ Start
    \/ StopBegin
    \/ StopDisconnect
    \/ StopJoin
    \/ LoopConnect
    \/ LoopConsume
    \/ Deliver
    \/ LoopExit
    \/ LoopFinally

SpecService == InitService /\ [][NextService]_vars

---------------------------------------------------------------------------
(* The deliveries of the queue's messages to a consuming consumer.  inbound
   is the queue: each message has its body and what the service's callback
   does with it; ops is the last delivery tag *)

InitDelivery ==
    /\ impl = "hf"
    /\ recog = Recognition(FALSE, <<>>, FALSE)
    /\ inbound \in [ 1..2 -> [ body : Bodies,
                                callback : {"acknowledge", "reject", "requeue"} ] ]
    /\ Idle

\* The broker delivers the first message of the queue to _on_message; the
\* message is settled by _on_message's handler or, when the callback was
\* called, by _message_callback; a message rejected with requeue=True is
\* put back on the queue
DeliverMessage ==
    /\ inbound # <<>>
    /\ \E tag \in { (ops % MaxDeliveries) + 1 } :
         \E done \in { on_message(Head(inbound).body, tag, "returns", "ok") } :
           \E requeue \in { IF done.called
                             THEN Head(inbound).callback = "requeue"
                             ELSE done.calls[1].args[2] } :
             /\ lastOp' = << [ op |-> "on_message",
                               body |-> Head(inbound).body,
                               delivery_tag |-> tag,
                               called |-> done.called,
                               requeue |-> requeue ] >>
             /\ inbound' = IF requeue
                           THEN Append(Tail(inbound), Head(inbound))
                           ELSE Tail(inbound)
             /\ ops' = tag
    /\ UNCHANGED <<impl, recog, now, ticks, runs, response, published,
                   settled, cbResult, commitment, reminder, built, channel,
                   connected, threads, ner_pipeline, service>>

\* A consuming consumer is handed every message that is on the queue
SpecDelivery ==
    InitDelivery /\ [][DeliverMessage]_vars /\ WF_vars(DeliverMessage)

---------------------------------------------------------------------------
(* The HuggingFace identifier's time range called on the chosen time
   expression and the activity *)

\* time_entities[0] (its word and parsed_datetime, on a Friday or a
\* Saturday) and what _extract_activity returned
InitRange ==
    /\ impl = "hf"
    /\ recog = Recognition(FALSE, <<>>, FALSE)
    /\ inbound \in
         [ time_entity :
               [ word : { <<"morning">>, <<"afternoon">>, <<"evening">>,
                          <<"friday">>, <<"on", "saturday">>, <<"tomorrow">>,
                          <<"15:30">>,
                          <<"tomorrow", "morning", "at", "10:00">> },
                 parsed_datetime : { Combine(d, m) : d \in {4, 5},
                                                     m \in {9 * 60, 15 * 60 + 30} } ],
           activity : { <<"Call">>, <<"Lunch">>, <<"Meeting">>, <<"Checkup">>,
                        <<"Recital">>, <<"Submit">>,
                        <<"Meeting", "or", "appointment">> } ]
    /\ Idle

\* self._get_time_range(time_entity, activity)
GetTimeRange ==
    /\ lastOp = <<>>
    /\ lastOp' = << [ op |-> "get_time_range",
                      result |-> get_time_range(inbound.time_entity,
                                                inbound.activity) ] >>
    /\ UNCHANGED <<impl, recog, inbound, now, ticks, runs, response,
                   published, settled, cbResult, commitment, reminder, built,
                   ops, channel, connected, threads, ner_pipeline, service>>

SpecRange == InitRange /\ [][GetTimeRange]_vars

---------------------------------------------------------------------------
(* The claims *)

\* The results of the calls made so far
Results == { runs[i].result : i \in 1..Len(runs) }

\* The reminders the calls made so far returned
RemindersReturned ==
    UNION { { r.reminders[k] : k \in 1..Len(r.reminders) } : r \in Results }

\* The commitments the calls made so far returned
CommitmentsReturned ==
    UNION { { r.commitments[k] : k \in 1..Len(r.commitments) } : r \in Results }

\* The content holds a phrase of the intent vocabulary of either identifier
HasIntentPhrase(text) ==
    \/ has_commitment_intent(text)
    \/ AnyPhraseIn(commitment_indicators, LowerText(text))

\* C1: for a Communication with empty content identify_commitments returns
\* an empty list and never invokes the entity recognizer.
C1_EmptyContentSkipsRecognizer ==
    inbound["content"] = <<>> =>
        \A r \in Results :
            ~r.raised /\ r.commitments = <<>> /\ r.nerCalls = 0

\* C2: for a Communication whose content holds no intent-vocabulary phrase
\* identify_commitments returns an empty list and never invokes the entity
\* recognizer.
C2_NoIntentSkipsRecognizer ==
    ~HasIntentPhrase(inbound["content"]) =>
        \A r \in Results :
            ~r.raised /\ r.commitments = <<>> /\ r.nerCalls = 0

\* C3: every Commitment identify_commitments returns has end_time >=
\* start_time and a non-empty who, what and where.
C3_CommitmentWellFormed ==
    \A c \in CommitmentsReturned :
        /\ c.end_time >= c.start_time
        /\ c.who # <<>>
        /\ c.what # <<>>
        /\ c.where # <<>>

\* C4: every Reminder process_communication returns has when strictly
\* before the start_time of its commitment.
C4_ReminderBeforeStart ==
    \A r \in RemindersReturned : r.when < r.commitment.start_time

C4_Witness ==
    \E r \in Results : ~r.raised /\ Len(r.reminders) >= 1

\* C5 as stated: the Reminder created for a Commitment has when equal to
\* commitment.calculate_departure_time().
C5_WhenIsDepartureTime ==
    \A r \in RemindersReturned :
        r.when = calculate_departure_time(r.commitment)

\* C5 as the code has it: the Reminder created for a Commitment has when
\* equal to start_time minus the fixed lead time of 30 minutes, which with
\* the default travel and preparation times is 10 minutes before the
\* departure time.
C5_WhenIsStartMinusLead ==
    \A r \in RemindersReturned :
        /\ r.when = r.commitment.start_time - DEFAULT_LEAD_TIME
        /\ r.when = calculate_departure_time(r.commitment)
                      - (DEFAULT_LEAD_TIME - DEFAULT_TRAVEL_TIME
                           - DEFAULT_PREP_TIME)

C5_Witness ==
    \E r \in RemindersReturned :
        /\ r.commitment.estimated_travel_time = DEFAULT_TRAVEL_TIME
        /\ r.commitment.estimated_prep_time = DEFAULT_PREP_TIME
        /\ r.when # calculate_departure_time(r.commitment)

\* C6: Reminder.from_commitment called without a lead_time sets when to 30
\* minutes before commitment.start_time, whatever the estimated travel and
\* preparation times of the commitment.
C6_DefaultLeadIsThirtyMinutes ==
    lastOp = << [ op |-> "from_commitment", lead_time |-> <<>> ] >> =>
        /\ Len(reminder) = 1
        /\ reminder[1].when = commitment.start_time - 30
        /\ reminder[1].commitment = commitment

C6_Witness ==
    /\ lastOp = << [ op |-> "from_commitment", lead_time |-> <<>> ] >>
    /\ commitment.estimated_travel_time = 25
    /\ commitment.estimated_prep_time = 10
    /\ reminder[1].when = commitment.start_time - 30

\* C7: an exception of the entity recognizer is caught inside
\* identify_commitments, which returns a list instead of raising.
C7_RecognizerFailureCaught ==
    recog.raises => \A r \in Results : ~r.raised

\* C8: ProcessCommunication.execute returns processed = true and the full
\* list of reminders whether publishing succeeds, returns false or raises.
C8_PublishOutcomeLeavesResponse ==
    response # <<>> =>
        LET processed == process_communication(impl, Communication(inbound),
                                               recog, now)
        IN ~processed.raised =>
             /\ ~response[1].raised
             /\ response[1].response =
                    [ processed |-> TRUE,
                      reminders |-> ReminderDtos(processed.reminders) ]
             /\ Len(published) = 1

C8_Witness ==
    /\ response # <<>>
    /\ ~response[1].raised
    /\ Len(published) = 1
    /\ published[1].outcome = "raise"
    /\ response[1].response.processed
    /\ Len(response[1].response.reminders) >= 1

\* C9: two runs of identify_commitments on the same Communication with the
\* same recognizer output return the same Commitments, whatever the
\* wall-clock time of each run.
C9_RunsAgree ==
    \A r1, r2 \in Results :
        r1.raised = r2.raised /\ r1.commitments = r2.commitments

\* C10: _message_callback makes exactly one settlement call: one
\* acknowledge_message when the message carries content, sender and
\* recipient and processing completes without error, else one
\* reject_message with requeue=False.
C10_OneSettlement ==
    cbResult # <<>> =>
        /\ Len(settled) = 1
        /\ settled[1].outcome \in SettleOutcomes
        /\ IF validate_message(inbound)
              /\ process_message(impl, inbound, recog, now).kind = "result"
           THEN settled[1] = Ack(settled[1].outcome)
           ELSE settled[1] = Reject(FALSE, settled[1].outcome)

C10_Witness ==
    /\ cbResult # <<>>
    /\ validate_message(inbound)
    /\ cbResult[1].kind = "result"
    /\ cbResult[1].commitments_found >= 1
    /\ settled = <<Ack("ok")>>

\* C11: a Communication built from an inbound value without a timestamp
\* has its timestamp set to its creation time, also when
\* _process_message builds it from a queue message without the key.
C11_TimestampDefaultsToCreation ==
    (built # <<>> /\ "timestamp" \notin DOMAIN inbound) =>
        built[1].timestamp = Datetime(now)


\* C12: snooze(duration) sets when to its previous value plus duration and
\* leaves acknowledged, message and commitment unchanged.
C12_SnoozeMovesWhenOnly ==
    (lastOp # <<>> /\ lastOp[1].op = "snooze") =>
        /\ reminder[1].when = lastOp[1].before.when + lastOp[1].arg[1]
        /\ reminder[1].acknowledged = lastOp[1].before.acknowledged
        /\ reminder[1].message = lastOp[1].before.message
        /\ reminder[1].commitment = lastOp[1].before.commitment

C12_Witness ==
    /\ lastOp # <<>>
    /\ lastOp[1].op = "snooze"
    /\ lastOp[1].arg = << -30 >>
    /\ lastOp[1].before.acknowledged
    /\ reminder[1].when = lastOp[1].before.when - 30
    /\ reminder[1].acknowledged

\* C13: is_due() returns true exactly when the current time is at or after
\* when and acknowledged is false, and it changes no field of the Reminder.
C13_IsDueWhenPastAndUnacknowledged ==
    (lastOp # <<>> /\ lastOp[1].op = "is_due") =>
        /\ lastOp[1].result =
               << /\ lastOp[1].clock >= lastOp[1].before.when
                  /\ ~lastOp[1].before.acknowledged >>
        /\ reminder = << lastOp[1].before >>

C13_Witness ==
    /\ lastOp # <<>>
    /\ lastOp[1].op = "is_due"
    /\ lastOp[1].clock >= lastOp[1].before.when
    /\ lastOp[1].before.acknowledged
    /\ lastOp[1].result = << FALSE >>


\* A person name was resolved for the commitment: only the Hugging Face
\* identifier resolves one, from the PER spans of the recognizer
PersonResolved ==
    /\ impl = "hf"
    /\ ~recog.raises
    /\ extract_person_entities(recog.entities) # <<>>

\* C14: whenever no person name is resolved for a commitment, the
\* Commitment's who equals the Communication's recipient.
C14_WhoFallsBackToRecipient ==
    ~PersonResolved =>
        \A c \in CommitmentsReturned : c.who = inbound["recipient"]

\* The text names a time either identifier resolves
TimeNamed(text) ==
    \/ extract_time_entities(text, now) # <<>>
    \/ extract_date(text, now) # <<>>
    \/ extract_time(text).value # <<>>

\* The text holds a date that is no calendar date
HasInvalidDate(text) ==
    \E i \in 1..Len(text) :
        \/ \E d \in DigitDates :
               d[1] = text[i] /\ CalendarDate(d[2], d[3]) = <<>>
        \/ /\ i + 1 <= Len(text)
           /\ \E m \in month_names, h \in HourTable :
                  /\ m[1] = Lower(text[i])
                  /\ h[1] = text[i + 1]
                  /\ CalendarDate(m[2], h[2]) = <<>>

\* C15: a Communication whose only date/time content is an invalid calendar
\* date yields zero Commitments and raises no exception (the recognizer
\* working and the timestamp a datetime).
C15_InvalidDateYieldsNothing ==
    ( /\ HasInvalidDate(inbound["content"])
      /\ ~TimeNamed(inbound["content"])
      /\ ~recog.raises
      /\ IsDatetime(Communication(inbound).timestamp) ) =>
        \A r \in Results : ~r.raised /\ r.commitments = <<>>

\* C16: in _on_message a body that is not valid JSON is rejected without
\* requeue and the callback is never invoked for it; when the callback
\* raises, the message is rejected with requeue=True; in neither case does
\* the exception escape _on_message.
C16_OnMessageRejects ==
    (lastOp # <<>> /\ lastOp[1].op = "on_message") =>
        LET call == lastOp[1]
            rejects(requeue) ==
                /\ Len(call.calls) = 1
                /\ call.calls[1].call = "basic_reject"
                /\ call.calls[1].args = <<call.delivery_tag, requeue>>
        IN /\ call.body \in {"malformed", "undecodable"} =>
                  ~call.called /\ rejects(FALSE) /\ ~call.raised
           /\ (call.called /\ call.callback \in {"Exception", "JSONDecodeError"}) =>
                  rejects(TRUE) /\ ~call.raised

\* C17: publish_message never raises: it returns False without publishing
\* when the publisher is not connected, when the exchange cannot be
\* declared or when basic_publish fails, and returns True only after the
\* exchange was declared and the message was handed to basic_publish.
C17_PublishNeverRaises ==
    (lastOp # <<>> /\ lastOp[1].op = "publish_message") =>
        LET call == lastOp[1]
            published_ok ==
                \E i \in 1..Len(call.calls) :
                    /\ call.calls[i].call = "basic_publish"
                    /\ call.calls[i].outcome = "ok"
        IN /\ ~call.raised
           /\ call.result \in { <<TRUE>>, <<FALSE>> }
           /\ ( \/ ~call.channel_set
                \/ call.declare # "ok"
                \/ call.publish # "ok" ) =>
                  call.result = <<FALSE>> /\ ~published_ok
           /\ call.result = <<TRUE>> =>
                  /\ Len(call.calls) = 2
                  /\ call.calls[1] = ChannelCall("exchange_declare", <<>>, "ok")
                  /\ call.calls[2] = ChannelCall("basic_publish", <<>>, "ok")

C17_Witness ==
    /\ lastOp # <<>>
    /\ lastOp[1].op = "publish_message"
    /\ lastOp[1].channel_set
    /\ lastOp[1].declare = "ok"
    /\ lastOp[1].serialisable
    /\ lastOp[1].publish = "Exception"
    /\ lastOp[1].result = <<FALSE>>
    /\ ~lastOp[1].raised

\* C18: when a sentence is split into several segments, each segment's
\* Commitment takes its time range from the time expression in that
\* segment's own text.
C18_SegmentTimeFromOwnText ==
    \A r \in Results :
        LET pairs == SegmentsOf(Sents(inbound["content"], <<>>))
        IN ( /\ impl = "spacy"
             /\ ~r.raised
             /\ Len(pairs) > 1
             /\ Len(r.commitments) = Len(pairs) ) =>
               \A i \in 1..Len(pairs) :
                   LET own == extract_time_info(pairs[i].segment,
                                                Communication(inbound).timestamp)
                   IN /\ r.commitments[i].start_time = own.value[1]
                      /\ r.commitments[i].end_time = own.value[2]

\* C19: if no time resolution is available for a segment, that segment
\* yields no Commitment; here no segment of the content names a time.
C19_NoTimeNoCommitment ==
    ~TimeNamed(inbound["content"]) =>
        \A r \in Results : r.commitments = <<>>

\* C20: when several time candidates are found in a text, the one chosen
\* for the Commitment is the candidate that starts earliest in the text.
C20_EarliestCandidateWins ==
    \A n \in 1..Len(runs) :
        LET r == runs[n].result
            candidates == extract_time_entities(inbound["content"], runs[n].clock)
        IN (impl = "hf" /\ ~r.raised /\ r.commitments # <<>>) =>
             \E k \in 1..Len(candidates) :
                 /\ \A j \in 1..Len(candidates) :
                        candidates[k].start <= candidates[j].start
                 /\ r.commitments[1].start_time =
                        get_time_range(candidates[k],
                                       extract_activity(inbound["content"]))[1]

\* A call of _get_time_range made
RangeCalled == lastOp # <<>> /\ lastOp[1].op = "get_time_range"

\* C21 as stated: the duration follows the first applicable rule in the
\* listed order, an activity rule before the window of a part of the day or
\* of a bare weekday, and is 60 minutes when no rule matches.
C21_ActivityRuleFirst ==
    RangeCalled =>
        lastOp[1].result[2] =
            get_time_range_activity_first(inbound.time_entity,
                                          inbound.activity)[2]

\* C21 amended: a time expression naming a part of the day or a weekday
\* with no clock time gives its window (3 h, 4 h, 3 h; 8 h or 4 h) whatever
\* the activity; otherwise the activity rule, else 60 minutes.
C21_WindowFirst ==
    RangeCalled =>
        LET start_time == lastOp[1].result[1]
            word == LowerText(inbound.time_entity.word)
            named(w) == NameIn(w, word)
            duration == lastOp[1].result[2] - start_time
            by_activity == ActivityDuration(inbound.activity)
        IN /\ start_time = inbound.time_entity.parsed_datetime
           /\ IF HasClockTime(word) THEN duration = by_activity
              ELSE IF named("morning") THEN duration = 180
              ELSE IF named("afternoon") THEN duration = 240
              ELSE IF named("evening") THEN duration = 180
              ELSE IF \E i \in 1..7 : named(WeekdayNames[i])
                   THEN duration = (IF Weekday(start_time) < 5 THEN 480 ELSE 240)
              ELSE duration = by_activity

C21_Witness ==
    /\ RangeCalled
    /\ inbound.activity = <<"Call">>
    /\ inbound.time_entity.word = <<"morning">>
    /\ lastOp[1].result[2] - lastOp[1].result[1] = 180

\* C22: the person resolver returns the candidate of highest confidence
\* (ties: the first in start order) among the names obtained by merging, in
\* start order, the spans whose gap is at most 2 characters (confidence the
\* minimum of the parts) and keeping the names with an uppercase character
\* and at most 3 words; it returns none only if no candidate survives.
C22_BestMergedName ==
    (lastOp # <<>> /\ lastOp[1].op = "extract_person_entities") =>
        LET spans == recog.entities
            n == Len(spans)
            rank(i) == 1 + Cardinality({ j \in 1..n :
                           \/ spans[j].start < spans[i].start
                           \/ spans[j].start = spans[i].start /\ j < i })
            sorted == [ k \in 1..n |-> spans[CHOOSE i \in 1..n : rank(i) = k] ]
            first(k) == k = 1 \/ sorted[k].start - sorted[k - 1].end > 2
            last(k) == k = n \/ first(k + 1)
            name[k \in 1..n] ==
                IF first(k) THEN sorted[k].word
                ELSE name[k - 1] \o sorted[k].word
            confidence[k \in 1..n] ==
                IF first(k) THEN sorted[k].score
                ELSE IF sorted[k].score < confidence[k - 1]
                     THEN sorted[k].score ELSE confidence[k - 1]
            candidates ==
                { k \in 1..n :
                    /\ last(k)
                    /\ \E i \in 1..Len(name[k]) : HasUpper(name[k][i])
                    /\ Len(name[k]) <= 3 }
        IN IF candidates = {} THEN lastOp[1].result = <<>>
           ELSE \E k \in candidates :
                    /\ lastOp[1].result = name[k]
                    /\ \A o \in candidates :
                           \/ confidence[k] > confidence[o]
                           \/ confidence[k] = confidence[o] /\ k <= o

\* Two adjacent spans are merged and win over an earlier name of lower
\* confidence
C22_Witness ==
    /\ lastOp # <<>>
    /\ lastOp[1].op = "extract_person_entities"
    /\ Len(recog.entities) = 3
    /\ recog.entities[1] = Entity("B-PER", <<"Maria">>, 15, 20, 99)
    /\ recog.entities[2] = Entity("B-PER", <<"Maria", "Rodriguez">>, 0, 5, 90)
    /\ recog.entities[3] = Entity("B-PER", <<"rodriguez">>, 7, 12, 99)
    /\ lastOp[1].result = <<"Maria">>


\* A time extraction made on a "this/next <weekday>" sentence
WeekdaySentence ==
    /\ lastOp # <<>>
    /\ lastOp[1].op = "extract_time_info"
    /\ inbound.content[2] \in WeekdayWords

\* C23: for every reference date and every "this <weekday>" or
\* "next <weekday>" expression, the resolved date is on or after the
\* reference date, and when the named weekday is the reference date's
\* weekday the resolution wraps forward 7 days.
C23_SameWeekdayWraps ==
    WeekdaySentence =>
        LET ref == DateOf(inbound.timestamp.t)
            date == lastOp[1].date[1]
        IN /\ date >= ref
           /\ WeekdayIndex(inbound.content[2]) = Weekday(inbound.timestamp.t)
                  => date = ref + 7

\* C24: when the time expression names only a weekday with no clock time,
\* the start_time is 09:00 on the resolved date if it is Monday to Friday
\* and 10:00 if it is Saturday or Sunday.
C24_WeekdayDefaultTime ==
    WeekdaySentence =>
        LET date == lastOp[1].date[1]
        IN lastOp[1].result.value[1]
               = Combine(date, IF date % 7 < 5 THEN 9 * 60 ELSE 10 * 60)

\* C30: for every clock time matched in the text, _extract_time returns a
\* time with hour in 0..23 and minute in 0..59 and never raises.
C30_ClockTimeInRange ==
    ( /\ lastOp # <<>>
      /\ lastOp[1].op = "extract_time_info"
      /\ inbound.content[2] \in {"am", "pm", "PM"} )
        => /\ ~lastOp[1].time.raised
           /\ lastOp[1].time.value # <<>>
           /\ lastOp[1].time.value[1] \div 60 \in 0..23
           /\ lastOp[1].time.value[1] % 60 \in 0..59


\* C25: when several threads call identify_commitments concurrently on one
\* identifier whose model is not yet loaded, the model is loaded exactly
\* once and the instance, once set, is never replaced: at most one thread
\* loaded a model, and the instance of every thread that stored one is the
\* instance held.
C25_LoadedOnce ==
    /\ Cardinality({ i \in 1..Len(threads) : threads[i].loaded }) <= 1
    /\ \A i \in 1..Len(threads) :
           threads[i].loaded /\ threads[i].pc \in {"return", "done"}
               => ner_pipeline = <<i>>


\* C26: after start(block=False) followed by stop(), once stop() has
\* returned the consumer is disconnected and no further message is
\* consumed, under every interleaving of the consumer thread with stop().
C26_StoppedMeansDisconnected ==
    ( /\ Len(threads) = 2
      /\ threads[1].pc = "stopped" )
        => /\ ~service.channel
           /\ service.late = 0


\* C27: every message delivered to _on_message is eventually settled for
\* good (acknowledged or rejected without requeue): no message is rejected
\* with requeue=True on every one of its deliveries forever, so the queue
\* empties.
C27_EventuallySettled == <>(inbound = <<>>)


\* C28: after any sequence of snooze and acknowledge calls on a Reminder
\* created by Reminder.from_commitment, when remains strictly before the
\* commitment's start_time: a call made on a Reminder whose when is before
\* the start leaves it before the start.
C28_WhenBeforeStart ==
    ( /\ lastOp # <<>>
      /\ lastOp[1].op \in {"snooze", "acknowledge"}
      /\ lastOp[1].before.when < lastOp[1].before.commitment.start_time )
        => reminder[1].when < reminder[1].commitment.start_time

\* C29: once acknowledge() has been called on a Reminder, acknowledged
\* stays true under every later acknowledge and snooze call, so is_due()
\* never returns true again.
C29_AcknowledgedForGood ==
    [][ ( /\ reminder # <<>>
          /\ reminder[1].acknowledged
          /\ lastOp'[1].op \in {"acknowledge", "snooze", "is_due"} )
            => /\ reminder' # <<>>
               /\ reminder'[1].acknowledged
               /\ lastOp'[1].op = "is_due" => lastOp'[1].result = << FALSE >>
      ]_vars

C29_Witness ==
    /\ lastOp # <<>>
    /\ lastOp[1].op = "is_due"
    /\ lastOp[1].before.acknowledged
    /\ lastOp[1].before.when = commitment.start_time - DEFAULT_LEAD_TIME - 30
    /\ lastOp[1].clock >= lastOp[1].before.when
    /\ lastOp[1].result = << FALSE >>

===========================================================================
